---- MODULE Spec2Model ----
(***************************************************************************)
(* Model of the token ledger of idaas-auth-js: IdaasClient.getAccessToken, *)
(* removeUnusableTokens, the refresh grant and parseAndSaveTokenResponse.  *)
(*                                                                         *)
(* Strings that the code splits (scopes) are sequences of one-character    *)
(* strings.  JavaScript `undefined` is Undefined for string fields and 0   *)
(* for the numeric / token-identifier fields (both are falsy in the code). *)
(* Date.now() is the variable clock, in milliseconds.                      *)
(*                                                                         *)
(* The hosted OIDC flows (OidcClient.login, handleRedirect, logout with    *)
(* the helpers generateAuthorizationUrl, parseRedirect,                    *)
(* validateAuthorizeResponse, requestAndValidateTokens and                 *)
(* parseAndSaveTokenResponse) run under the specification OidcSpec; the    *)
(* token ledger runs under Spec.  An optional value of the code (x?: T) is *)
(* <<>> when absent and <<x>> when present wherever absence must be told   *)
(* from every value of T.                                                  *)
(***************************************************************************)
EXTENDS Integers, Sequences, FiniteSets, TLC

VARIABLES
    accessTokens,   \* StorageManager: the stored AccessToken records, in storage order
    clock,          \* Date.now(), milliseconds
    config,         \* IdaasClient.config: TRUE once the discovery document is cached
    pc,             \* position of the getAccessToken invocation in flight
    call,           \* the invocation in flight: its arguments, locals and outcome
    idToken,        \* StorageManager: the stored id token (0: none)
    savedTokenParams,   \* StorageManager: the stored token params (optional)
    savedClientParams,  \* StorageManager: the stored client params (optional)
    location,       \* window.location.href: the visible URL
    rnd,            \* how many random strings createRandomString has produced
    provider,       \* the discovery document the provider serves
    opc,            \* position of the OidcClient operation in flight
    op,             \* the OidcClient operation in flight: arguments, locals, outcome
    authenticationTransaction,  \* IdaasContext.authenticationTransaction (optional id)
    transactions,   \* the AuthenticationTransaction objects created so far, by id
    rbac,           \* position of the RbaClient operation in flight
    rba,            \* the RbaClient operation in flight: locals and outcome
    getConfigCalls, \* the getConfig calls of overlapping operations, by caller
    configFetches,  \* discovery requests sent and failed so far
    stores,         \* the IStore backends: what each holds under each key
    storeOp,        \* the last operation on a store or on the StorageManager
    auth,           \* the AuthClient helper in flight: arguments, calls made, outcome
    parked          \* an operation suspended at an await while another one runs

ledgerVars == <<clock, pc, call>>

oidcVars ==
    <<idToken, savedTokenParams, savedClientParams, location, rnd, provider, opc, op>>

rbaVars ==
    <<authenticationTransaction, transactions, rbac, rba, getConfigCalls, configFetches>>

extraVars == <<stores, storeOp, auth, parked>>

vars == <<accessTokens, clock, config, pc, call,
          idToken, savedTokenParams, savedClientParams, location, rnd, provider, opc, op,
          authenticationTransaction, transactions, rbac, rba, getConfigCalls, configFetches,
          stores, storeOp, auth, parked>>

----------------------------------------------------------------------------
(* Bounds *)

MaxTokens == 2      \* most records held in storage at once
MaxTicks  == 4      \* the clock stops after MaxTicks steps of ClockStep ms
ClockStep == 1000 \div 2   \* one Tick of the clock: half a second, in milliseconds

----------------------------------------------------------------------------
(* Values *)

Undefined == "undefined"

buffer == 15

ScopeA   == <<"a">>
ScopeAB  == <<"a", " ", "b">>
ScopeABC == <<"a", " ", "b", " ", "c">>

\* what a login saved as token params: scope, audience, maxAge (0: none)
TokenParamsSet ==
    { [scope |-> ScopeA,   audience |-> "X",       maxAge |-> 0],
      [scope |-> ScopeABC, audience |-> "X",       maxAge |-> 0],
      [scope |-> ScopeAB,  audience |-> Undefined, maxAge |-> 15] }

AcrSet == {Undefined, "p"}          \* the acr claim of an access token
ExpiresInSet == {16}                \* expires_in of a token response, seconds
AuthTimeSet == {0}                  \* auth_time claim of an access token (0: absent,
                                    \* the expiry then counts from now)

RequestScopes == {ScopeA, ScopeAB}
RequestAudiences == {"X", Undefined}
RequestAcrValues == {<<>>, <<"p">>, <<"q">>}

\* fallbackAuthorizationOptions: absent (<<>>) or one options object (a redirect
\* login; a popup login stores tokens itself and belongs to OidcClient.login)
FallbackSet ==
    { <<>>,
      <<[popup |-> FALSE, useRefreshToken |-> TRUE]>> }

NoResult == [kind |-> "pending", value |-> 0, error |-> ""]

NoCall ==
    [ scope |-> <<>>, audience |-> Undefined, acrValues |-> <<>>, fallback |-> <<>>,
      now |-> 0, before |-> <<>>, purged |-> <<>>, requestedToken |-> <<>>,
      refreshRequests |-> 0, grant |-> "none", loginCalls |-> <<>>, response |-> <<>>,
      result |-> NoResult ]

Returned(v) == [kind |-> "return", value |-> v, error |-> ""]
Thrown(e)   == [kind |-> "throw",  value |-> 0, error |-> e]

ErrNotRemoved == "Token that is not valid was not removed"
ErrNotFound   == "Requested token not found, no fallback login specified"
ErrConfig     == "Failed to load OIDC configuration"
ErrToken      == "token request failed"
ErrLogin      == "login failed"

----------------------------------------------------------------------------
(* Pure helpers *)

RECURSIVE SplitAcc(_, _, _)
SplitAcc(s, cur, toks) ==
    IF s = <<>> THEN Append(toks, cur)
    ELSE IF Head(s) = " " THEN SplitAcc(Tail(s), <<>>, Append(toks, cur))
    ELSE SplitAcc(Tail(s), Append(cur, Head(s)), toks)

\* String.prototype.split(" ")
Split(s) == SplitAcc(s, <<>>, <<>>)

\* Array.prototype.includes
Includes(seq, x) == \E i \in 1..Len(seq) : seq[i] = x

\* Array.prototype.join(" ")
RECURSIVE Join(_)
Join(tokens) ==
    IF tokens = <<>> THEN <<>>
    ELSE IF Len(tokens) = 1 THEN tokens[1]
    ELSE tokens[1] \o <<" ">> \o Join(Tail(tokens))

\* [...new Set(array)]: the first occurrence of every element, in order
RECURSIVE UniqueLoop(_, _)
UniqueLoop(rest, seen) ==
    IF rest = <<>> THEN seen
    ELSE UniqueLoop(Tail(rest), IF Includes(seen, Head(rest)) THEN seen ELSE Append(seen, Head(rest)))

Unique(array) == UniqueLoop(array, <<>>)

Openid == <<"o", "p", "e", "n", "i", "d">>
OfflineAccess == <<"o", "f", "f", "l", "i", "n", "e", "_", "a", "c", "c", "e", "s", "s">>

\* mutant: openid is put in front of the requested scopes
UsedScopeOpenidFirst(scope, useRefreshToken) ==
    LET scopeAsArray == SelectSeq(Split(scope), LAMBDA t : t # <<>>)
        withOpenid == <<Openid>> \o scopeAsArray
        withOffline == IF useRefreshToken THEN Append(withOpenid, OfflineAccess) ELSE withOpenid
    IN Join(Unique(withOffline))

\* generateAuthorizationUrl: the scope sent and saved as token params
UsedScope(scope, useRefreshToken) ==
    LET scopeAsArray == SelectSeq(Split(scope), LAMBDA t : t # <<>>)
        withOpenid == Append(scopeAsArray, Openid)
        withOffline == IF useRefreshToken THEN Append(withOpenid, OfflineAccess) ELSE withOpenid
    IN Join(Unique(withOffline))

\* Math.floor(Date.now() / 1000)
NowSeconds(ms) == ms \div 1000

\* calculateEpochExpiry(expiresIn, authTime): authTime defaults to now (0: absent)
calculateEpochExpiry(expiresIn, authTime, ms) ==
    expiresIn + (IF authTime = 0 THEN NowSeconds(ms) ELSE authTime)

----------------------------------------------------------------------------
(* StorageManager *)

getAccessTokens(store) == store

\* mutant: the records are keyed by audience, a record replaces the one of its
\* audience
saveAccessTokenKeyedByAudience(store, token) ==
    Append(SelectSeq(store, LAMBDA t : t.audience # token.audience), token)

saveAccessToken(store, token) == Append(store, token)

removeAccessToken(store, token) == SelectSeq(store, LAMBDA t : t # token)

----------------------------------------------------------------------------
(* Values of the OIDC flows *)

None == <<>>

Some(x) == <<x>>

\* a ?? b
OrElse(a, b) == IF a = None THEN b ELSE a[1]

Space == <<" ">>
Profile == <<"p", "r", "o", "f", "i", "l", "e">>
Email == <<"e", "m", "a", "i", "l">>

\* "profile email"
ScopeProfileEmail == Profile \o Space \o Email

\* "openid profile profile email"
ScopeOpenidProfileProfileEmail ==
    Openid \o Space \o Profile \o Space \o Profile \o Space \o Email

\* the defaults of the client: "openid profile email", no audience
globalScope == Openid \o Space \o Profile \o Space \o Email
globalAudience == Undefined
clientId == "client123"

\* the page of the application, the provider's authorization endpoint and its
\* end-session endpoint; a URL is an origin and an optional query
AppUrl == [origin |-> "app", query |-> None]

\* sanitizeUri: the URI without its search params
sanitizeUri(uri) == [uri EXCEPT !.query = None]

\* Number.prototype.toString of a non-negative integer
DigitChars == <<"0", "1", "2", "3", "4", "5", "6", "7", "8", "9">>

RECURSIVE NumberToString(_)
NumberToString(n) ==
    IF n < 10 THEN <<DigitChars[n + 1]>>
    ELSE NumberToString(n \div 10) \o <<DigitChars[(n % 10) + 1]>>

----------------------------------------------------------------------------
(* utils/crypto: a string is the term that produced it *)

\* the n-th string of createRandomString; the secure random source does not
\* repeat itself: every call yields a string no earlier call yielded
createRandomString(n) == [random |-> n]

base64UrlStringEncode(input) == [base64url |-> input]

sha256(input) == [sha256 |-> input]

RandomStringLength == 43    \* getRandomValues(new Uint8Array(43)), one char per byte
Sha256Length == 32          \* bytes of a SHA-256 digest

\* String.prototype.length of such a term; base64url without padding writes
\* ceil(4n / 3) characters for n bytes
RECURSIVE StringLength(_)
StringLength(x) ==
    IF DOMAIN x = {"random"} THEN RandomStringLength
    ELSE IF DOMAIN x = {"sha256"} THEN Sha256Length
    ELSE (4 * StringLength(x.base64url) + 2) \div 3

generateChallengeVerifierPair(n) ==
    LET codeVerifier == base64UrlStringEncode(createRandomString(n))
    IN [ codeVerifier  |-> codeVerifier,
         codeChallenge |-> base64UrlStringEncode(sha256(codeVerifier)) ]

\* a state no flow of this client generated
ForgedState == base64UrlStringEncode(createRandomString(0))

----------------------------------------------------------------------------
(* helpers/url: generateAuthorizationUrl *)

\* mutant: max_age is added only for a positive maxAge
UrlMaxAgePositive(maxAge) ==
    IF maxAge # None /\ maxAge[1] > 0 THEN Some(NumberToString(maxAge[1])) ELSE None

\* the max_age search param: maxAge !== undefined && maxAge >= 0
UrlMaxAge(maxAge) ==
    IF maxAge # None /\ maxAge[1] >= 0 THEN Some(NumberToString(maxAge[1])) ELSE None

\* the token params saved with the storage manager
SavedTokenParams(audience, usedScope, maxAge) ==
    IF maxAge # None /\ maxAge[1] >= 0
    THEN [audience |-> audience, scope |-> usedScope, maxAge |-> Some(maxAge[1])]
    ELSE [audience |-> audience, scope |-> usedScope, maxAge |-> None]

\* acr values are one-character strings here
AcrChars(acrValues) == [i \in 1..Len(acrValues) |-> <<acrValues[i]>>]

\* the search params appended to the authorization endpoint (type "standard")
AuthorizationUrl(options, usedScope, state, nonce, codeChallenge) ==
    [ origin |-> "authorize",
      query |-> Some(
        [ client_id |-> options.clientId,
          scope |-> usedScope,
          state |-> state,
          nonce |-> nonce,
          code_challenge |-> codeChallenge,
          code_challenge_method |-> "S256",
          audience |-> IF options.audience # Undefined /\ options.audience # ""
                       THEN Some(options.audience) ELSE None,
          max_age |-> UrlMaxAge(options.maxAge),
          acr_values |-> IF Len(options.acrValues) > 0
                         THEN Some(Join(AcrChars(options.acrValues))) ELSE None,
          response_type |-> "code",
          response_mode |-> options.responseMode,
          redirect_uri |-> options.redirectUri ]) ]

\* mutant: the nonce is the state, not a random string of its own
generateAuthorizationUrlNonceIsState(options, drawn) ==
    LET usedScope == UsedScope(options.scope, options.useRefreshToken)
        state == base64UrlStringEncode(createRandomString(drawn + 1))
        nonce == state
        pair == generateChallengeVerifierPair(drawn + 3)
    IN [ url |-> AuthorizationUrl(options, usedScope, state, nonce, pair.codeChallenge),
         nonce |-> nonce,
         state |-> state,
         codeVerifier |-> pair.codeVerifier,
         usedScope |-> usedScope,
         tokenParams |-> SavedTokenParams(options.audience, usedScope, options.maxAge),
         drawn |-> drawn + 3 ]

\* generateAuthorizationUrl, the storage manager given; drawn: the random
\* strings produced before the call.  The result also carries what the call
\* leaves behind: the token params it saved and the strings produced by now.
generateAuthorizationUrl(options, drawn) ==
    LET usedScope == UsedScope(options.scope, options.useRefreshToken)
        state == base64UrlStringEncode(createRandomString(drawn + 1))
        nonce == base64UrlStringEncode(createRandomString(drawn + 2))
        pair == generateChallengeVerifierPair(drawn + 3)
    IN [ url |-> AuthorizationUrl(options, usedScope, state, nonce, pair.codeChallenge),
         nonce |-> nonce,
         state |-> state,
         codeVerifier |-> pair.codeVerifier,
         usedScope |-> usedScope,
         tokenParams |-> SavedTokenParams(options.audience, usedScope, options.maxAge),
         drawn |-> drawn + 3 ]

\* mutant: post_logout_redirect_uri is never appended
generateLogoutUrlWithoutRedirect(redirectUri) ==
    [ origin |-> "endsession",
      query |-> Some([client_id |-> clientId, post_logout_redirect_uri |-> None]) ]

\* generateLogoutUrl: the end-session URL
generateLogoutUrl(redirectUri) ==
    [ origin |-> "endsession",
      query |-> Some(
        [ client_id |-> clientId,
          post_logout_redirect_uri |-> IF redirectUri # None /\ redirectUri[1] # ""
                                       THEN redirectUri ELSE None ]) ]

----------------------------------------------------------------------------

----------------------------------------------------------------------------
(* IdaasClient.removeUnusableTokens *)

\* mutant: expired records are removed whether or not they hold a refresh token
RECURSIVE PurgeLoopIgnoringRefresh(_, _, _)
PurgeLoopIgnoringRefresh(tokens, store, now) ==
    IF tokens = <<>> THEN store
    ELSE LET token == Head(tokens)
             s1 == IF token.maxAgeExpiry # 0 /\ now > token.maxAgeExpiry - buffer
                   THEN removeAccessToken(store, token)
                   ELSE store
             s2 == IF now > token.expiresAt - buffer
                   THEN removeAccessToken(s1, token)
                   ELSE s1
         IN PurgeLoopIgnoringRefresh(Tail(tokens), s2, now)

RECURSIVE PurgeLoop(_, _, _)
PurgeLoop(tokens, store, now) ==
    IF tokens = <<>> THEN store
    ELSE LET token == Head(tokens)
             s1 == IF token.maxAgeExpiry # 0 /\ now > token.maxAgeExpiry - buffer
                   THEN removeAccessToken(store, token)
                   ELSE store
             s2 == IF now > token.expiresAt - buffer /\ token.refreshToken = 0
                   THEN removeAccessToken(s1, token)
                   ELSE s1
         IN PurgeLoop(Tail(tokens), s2, now)

removeUnusableTokens(store, ms) ==
    PurgeLoop(getAccessTokens(store), store, NowSeconds(ms))

----------------------------------------------------------------------------
(* IdaasClient.getAccessToken: selection *)

\* the filter of step 2: audience, then scopes, then (if requested) acr
AudienceMatches(token, audience) == token.audience = audience

\* mutant: some requested scope instead of every requested scope
HasSomeScope(token, scope) ==
    LET requestedScopes == Split(scope)
        tokenScopes == Split(token.scope)
    IN \E i \in 1..Len(requestedScopes) : Includes(tokenScopes, requestedScopes[i])

HasAllScopes(token, scope) ==
    LET requestedScopes == Split(scope)
        tokenScopes == Split(token.scope)
    IN \A i \in 1..Len(requestedScopes) : Includes(tokenScopes, requestedScopes[i])

AcrMatches(token, acrValues) ==
    IF token.acr # Undefined /\ token.acr # ""
    THEN Includes(acrValues, token.acr)
    ELSE FALSE

FilterTokens(tokens, scope, audience, acrValues) ==
    LET byAudience == SelectSeq(tokens, LAMBDA t : AudienceMatches(t, audience))
        byScope == SelectSeq(byAudience, LAMBDA t : HasAllScopes(t, scope))
    IN IF Len(acrValues) > 0
       THEN SelectSeq(byScope, LAMBDA t : AcrMatches(t, acrValues))
       ELSE byScope

\* mutant: the comparator sorts descending
ScopeCompareDescending(token1, token2) == Len(Split(token2.scope)) - Len(Split(token1.scope))

\* the comparator handed to Array.prototype.sort
ScopeCompare(token1, token2) == Len(Split(token1.scope)) - Len(Split(token2.scope))

\* Array.prototype.sort is stable: equal elements keep their order
RECURSIVE InsertSorted(_, _)
InsertSorted(sorted, t) ==
    IF sorted = <<>> THEN <<t>>
    ELSE IF ScopeCompare(Head(sorted), t) > 0 THEN <<t>> \o sorted
    ELSE <<Head(sorted)>> \o InsertSorted(Tail(sorted), t)

RECURSIVE SortLoop(_, _)
SortLoop(rest, sorted) ==
    IF rest = <<>> THEN sorted
    ELSE SortLoop(Tail(rest), InsertSorted(sorted, Head(rest)))

SortTokens(tokens) == SortLoop(tokens, <<>>)

\* mutant: the expiry in seconds is compared with the clock in milliseconds
NotExpiredSeconds(token, ms) == (token.expiresAt - buffer) > ms

\* expDate > now
NotExpired(token, ms) == (token.expiresAt - buffer) * 1000 > ms

----------------------------------------------------------------------------
(* OidcClient: values and pure helpers *)

ErrPopupUnsupported == "Attempted to use popup but web_message is not supported by OpenID provider."
ErrClientState      == "Failed to recover IDaaS client state from local storage"
ErrAuthorization    == "Error during authorization"
ErrMissingCode      == "URL must contain state and code for the authorization flow"
ErrStateMismatch    == "State received during redirect does not match the state from the beginning of the OIDC ceremony"
ErrNoTokenParams    == "No token params stored, unable to parse"
ErrPopup            == "popup closed"

\* what the storage manager holds, as one value
StorageOf(id, tokens, tokenParams, clientParams) ==
    [idToken |-> id, accessTokens |-> tokens, tokenParams |-> tokenParams, clientParams |-> clientParams]

\* StorageManager.remove(): nothing is left
EmptyStorage == StorageOf(0, <<>>, None, None)

NoOp ==
    [ kind |-> "none", options |-> None, popupWindow |-> "none",
      before |-> EmptyStorage, href |-> AppUrl, drawnBefore |-> 0, cached |-> FALSE,
      generated |-> None, authorizeResponse |-> None, expectedState |-> None,
      tokenRequests |-> <<>>, configFetches |-> 0, logoutUrls |-> <<>>,
      validated |-> None, id_token |-> None, result |-> NoResult ]

\* mutant: the query of a callback is left in the visible URL
parseRedirectKeepsQuery(href) ==
    IF href.query = None
    THEN [authorizeResponse |-> None, href |-> href]
    ELSE LET searchParams == href.query[1]
         IN IF searchParams.state = None
            THEN [authorizeResponse |-> None, href |-> href]
            ELSE IF searchParams.code = None /\ searchParams.error = None
            THEN [authorizeResponse |-> None, href |-> href]
            ELSE [ authorizeResponse |->
                       Some([ state |-> searchParams.state, code |-> searchParams.code,
                              error |-> searchParams.error ]),
                   href |-> href ]

\* parseRedirect: the authorization response in the visible URL, if it is one,
\* and the visible URL it leaves (history.replaceState)
parseRedirect(href) ==
    IF href.query = None
    THEN [authorizeResponse |-> None, href |-> href]
    ELSE LET searchParams == href.query[1]
         IN IF searchParams.state = None
            THEN [authorizeResponse |-> None, href |-> href]
            ELSE IF searchParams.code = None /\ searchParams.error = None
            THEN [authorizeResponse |-> None, href |-> href]
            ELSE [ authorizeResponse |->
                       Some([ state |-> searchParams.state, code |-> searchParams.code,
                              error |-> searchParams.error ]),
                   href |-> [href EXCEPT !.query = None] ]

\* mutant: the state of the response is not compared with the expected state
validateAuthorizeResponseNoStateCheck(response, expectedState) ==
    IF response.error # None
    THEN [ok |-> FALSE, code |-> None, error |-> ErrAuthorization]
    ELSE IF ~(response.code # None /\ response.state # None)
    THEN [ok |-> FALSE, code |-> None, error |-> ErrMissingCode]
    ELSE [ok |-> TRUE, code |-> response.code, error |-> ""]

\* validateAuthorizeResponse: the authorization code, or the error thrown
validateAuthorizeResponse(response, expectedState) ==
    IF response.error # None
    THEN [ok |-> FALSE, code |-> None, error |-> ErrAuthorization]
    ELSE IF ~(response.code # None /\ response.state # None)
    THEN [ok |-> FALSE, code |-> None, error |-> ErrMissingCode]
    ELSE IF Some(expectedState) # response.state
    THEN [ok |-> FALSE, code |-> None, error |-> ErrStateMismatch]
    ELSE [ok |-> TRUE, code |-> response.code, error |-> ""]

\* the authorization_code grant of requestAndValidateTokens
AccessTokenRequest(code, codeVerifier, redirectUri) ==
    [ client_id |-> clientId, code |-> code, code_verifier |-> codeVerifier,
      grant_type |-> "authorization_code", redirect_uri |-> redirectUri ]

\* the client right after construction: nothing stored, no operation in flight
OidcIdle ==
    /\ idToken = 0
    /\ savedTokenParams = None
    /\ savedClientParams = None
    /\ location = AppUrl
    /\ rnd = 0
    /\ opc = "idle"
    /\ op = NoOp

----------------------------------------------------------------------------
(* RbaClient, the AuthenticationTransaction it drives, and getConfig *)

MaxTransactions == 2    \* AuthenticationTransaction objects created in one behaviour
MaxCallers == 3         \* operations whose getConfig calls may overlap
MaxFetches == 3         \* discovery requests sent in one behaviour

ErrNoTransaction    == "No authentication transaction in progress!"
ErrInitTransaction  == "Failed to initialize authentication transaction"
ErrRetrievingTokens == "Error retrieving tokens from transaction"
ErrRba              == "authentication request failed"
ErrNotAwaitingPoll  == "the transaction does not await completion"

globalUseRefreshToken == FALSE

\* preferredAuthenticationMethod of requestChallenge, strict
RbaMethods == {"OTP", "TOKENPUSH"}

\* tokenOptions of requestChallenge
RbaTokenOptionsSet ==
    [audience : {None, Some("X")}, scope : {None}, useRefreshToken : {None, Some(TRUE)}]

\* maxAge of the authentication details of a completed transaction
RbaMaxAges == {None, Some(300)}

\* new AuthenticationTransaction({oidcConfig, ...options, useRefreshToken,
\* audience, scope, clientId}): no challenge requested yet
NewAuthenticationTransaction(id, method, tokenOptions) ==
    [ id |-> id,
      method |-> method,
      useRefreshToken |-> OrElse(tokenOptions.useRefreshToken, globalUseRefreshToken),
      audience |-> OrElse(tokenOptions.audience, globalAudience),
      scope |-> OrElse(tokenOptions.scope, globalScope),
      clientId |-> clientId,
      state |-> "Uninitialized",
      details |-> None ]

\* mutant: a live transaction is kept, the new object is created beside it
initializeAuthenticationTransactionKeepsLive(current, objects, method, tokenOptions) ==
    LET id == Len(objects) + 1
    IN [ authenticationTransaction |-> IF current = None THEN Some(id) ELSE current,
         transactions |-> Append(objects, NewAuthenticationTransaction(id, method, tokenOptions)) ]

\* initializeAuthenticationTransaction after getConfig resolved: the field is
\* assigned a new object whatever it held
initializeAuthenticationTransaction(current, objects, method, tokenOptions) ==
    LET id == Len(objects) + 1
    IN [ authenticationTransaction |-> Some(id),
         transactions |-> Append(objects, NewAuthenticationTransaction(id, method, tokenOptions)) ]

\* the response of requestAuthChallenge: a push is polled for, a code is submitted
ChallengeResponse(method) ==
    [ authenticationCompleted |-> FALSE,
      pollForCompletion |-> method = "TOKENPUSH",
      method |-> method ]

\* the responses to a submission: completed, or another step to submit or to
\* poll for
SubmitResponses(method) ==
    { [authenticationCompleted |-> TRUE, pollForCompletion |-> FALSE, method |-> method] }
    \cup { [authenticationCompleted |-> FALSE, pollForCompletion |-> p, method |-> method] :
              p \in BOOLEAN }

\* the responses to a status check
PollResponses(method) ==
    { [authenticationCompleted |-> c, pollForCompletion |-> ~c, method |-> method] :
          c \in BOOLEAN }

\* the state a response leaves the transaction object in
StateAfter(response) ==
    IF response.authenticationCompleted THEN "Completed"
    ELSE IF response.pollForCompletion THEN "AwaitingPoll"
    ELSE "AwaitingSubmission"

\* the tokens a completed response carries, as the transaction keeps them
AuthenticationDetails(transaction, id, maxAge, ms) ==
    [ idToken |-> id,
      accessToken |-> id,
      refreshToken |-> IF transaction.useRefreshToken THEN id ELSE 0,
      scope |-> transaction.scope,
      expiresAt |-> calculateEpochExpiry(16, 0, ms),
      maxAge |-> maxAge,
      audience |-> transaction.audience ]

\* the transaction object after a response of the server
Responded(transaction, response, id, maxAge, ms) ==
    [ transaction EXCEPT
        !.state = StateAfter(response),
        !.details = IF response.authenticationCompleted
                    THEN Some(AuthenticationDetails(transaction, id, maxAge, ms))
                    ELSE @ ]

\* getAuthenticationDetails
getAuthenticationDetails(transaction) == transaction.details

\* pollForAuthCompletion may be sent
AwaitsPoll(transaction) == transaction.state = "AwaitingPoll"

\* the record handleAuthenticationTransactionSuccess saves
RbaAccessToken(details, ms) ==
    [ accessToken  |-> details.accessToken,
      expiresAt    |-> details.expiresAt,
      scope        |-> details.scope,
      refreshToken |-> details.refreshToken,
      audience     |-> details.audience,
      maxAgeExpiry |-> IF details.maxAge # None
                       THEN calculateEpochExpiry(details.maxAge[1], 0, ms)
                       ELSE 0,
      acr          |-> Undefined ]

\* mutant: the stored id token is kept, only the access token is saved
handleAuthenticationTransactionSuccessKeepsIdToken(current, objects, id, tokens, ms) ==
    IF current = None
    THEN [ error |-> Some(ErrNoTransaction), idToken |-> id, accessTokens |-> tokens,
           authenticationTransaction |-> current ]
    ELSE LET details == getAuthenticationDetails(objects[current[1]])
         IN IF details = None
            THEN [ error |-> Some(ErrRetrievingTokens), idToken |-> id,
                   accessTokens |-> tokens, authenticationTransaction |-> current ]
            ELSE [ error |-> None,
                   idToken |-> IF id = 0 THEN details[1].idToken ELSE id,
                   accessTokens |-> saveAccessToken(tokens, RbaAccessToken(details[1], ms)),
                   authenticationTransaction |-> None ]

\* mutant: the transaction is kept after its tokens were saved
handleAuthenticationTransactionSuccessKeepsTransaction(current, objects, id, tokens, ms) ==
    IF current = None
    THEN [ error |-> Some(ErrNoTransaction), idToken |-> id, accessTokens |-> tokens,
           authenticationTransaction |-> current ]
    ELSE LET details == getAuthenticationDetails(objects[current[1]])
         IN IF details = None
            THEN [ error |-> Some(ErrRetrievingTokens), idToken |-> id,
                   accessTokens |-> tokens, authenticationTransaction |-> current ]
            ELSE [ error |-> None,
                   idToken |-> details[1].idToken,
                   accessTokens |-> saveAccessToken(tokens, RbaAccessToken(details[1], ms)),
                   authenticationTransaction |-> current ]

\* handleAuthenticationTransactionSuccess: throws without a transaction or
\* without tokens, else saves the id token and the access token and discards
\* the transaction
handleAuthenticationTransactionSuccess(current, objects, id, tokens, ms) ==
    IF current = None
    THEN [ error |-> Some(ErrNoTransaction), idToken |-> id, accessTokens |-> tokens,
           authenticationTransaction |-> current ]
    ELSE LET details == getAuthenticationDetails(objects[current[1]])
         IN IF details = None
            THEN [ error |-> Some(ErrRetrievingTokens), idToken |-> id,
                   accessTokens |-> tokens, authenticationTransaction |-> current ]
            ELSE [ error |-> None,
                   idToken |-> details[1].idToken,
                   accessTokens |-> saveAccessToken(tokens, RbaAccessToken(details[1], ms)),
                   authenticationTransaction |-> None ]

\* mutant: the error of a call without transaction is the one of a failed
\* initialization
GuardTransactionInitError(current) ==
    IF current = None THEN Some(ErrInitTransaction) ELSE None

\* if (!this.context.authenticationTransaction) throw
GuardTransaction(current) ==
    IF current = None THEN Some(ErrNoTransaction) ELSE None

\* if (authenticationResponse.authenticationCompleted)
CompletionHandled(response) == response.authenticationCompleted

NoRba ==
    [ kind |-> "none", options |-> None, tx |-> None, before |-> EmptyStorage,
      liveBefore |-> None, objectBefore |-> None, requests |-> <<>>,
      response |-> None, result |-> NoResult ]

Callers == 1..MaxCallers

NoGetConfigCall == [pc |-> "idle", sent |-> FALSE, cachedAtCall |-> FALSE]

RbaIdle ==
    /\ authenticationTransaction = None
    /\ transactions = <<>>
    /\ rbac = "idle"
    /\ rba = NoRba
    /\ getConfigCalls = [c \in Callers |-> NoGetConfigCall]
    /\ configFetches = [sent |-> 0, failed |-> 0]

----------------------------------------------------------------------------
(* IStore backends, AuthClient helpers, operations that overlap *)

\* the two IStore implementations
Backends == {"memory", "localstorage"}

StoreKeys == {"foo", "bar"}

StoreValues == {"value1", "value2"}

\* what get returns for a key that holds nothing
Null == "null"

EmptyStore == [k \in StoreKeys |-> Null]

\* IStore.get
get(store, key) == store[key]

\* IStore.save
save(store, key, value) == [store EXCEPT ![key] = value]

\* mutant: delete empties the store
deleteClearsStore(store, key) == EmptyStore

\* IStore.delete
delete(store, key) == [store EXCEPT ![key] = Null]

NoStoreOp ==
    [ kind |-> "none", backend |-> "none", key |-> "none", value |-> Null,
      record |-> None, before |-> None, result |-> None ]

NoAuth ==
    [ kind |-> "none", options |-> None, calls |-> <<>>, pc |-> "idle", result |-> NoResult ]

ExtraIdle ==
    /\ stores = [b \in Backends |-> EmptyStore]
    /\ storeOp = NoStoreOp
    /\ auth = NoAuth
    /\ parked = None

Init ==
    /\ accessTokens = <<>>
    /\ clock = 0
    /\ config = FALSE
    /\ pc = "idle"
    /\ call = NoCall
    /\ OidcIdle
    /\ RbaIdle
    /\ ExtraIdle
    /\ provider = [response_modes_supported |-> {"query", "web_message"}]

\* time passes: between invocations and while getAccessToken awaits the network
\* (the settled promise, pc = "done", is taken at once; the fallback login reads
\* no clock)
Tick ==
    /\ pc \in {"idle", "getConfig", "requestToken"}
    /\ clock < MaxTicks * ClockStep
    /\ clock' = clock + ClockStep
    /\ UNCHANGED <<extraVars, rbaVars, accessTokens, config, pc, call, oidcVars>>

\* Token strings are opaque: an identifier stands for one.  The provider never
\* issues a token string again while the client or the invocation in flight
\* still holds it.
TokenIds(store) ==
    {store[i].accessToken : i \in 1..Len(store)} \cup {store[i].refreshToken : i \in 1..Len(store)}

FreshId ==
    LET used == TokenIds(accessTokens) \cup TokenIds(call.before)
    IN CHOOSE n \in 1..(Cardinality(used) + 1) : n \notin used

\* a token response of the provider: the token identifiers are fresh
TokenResponses(id) ==
    { [access_token |-> id, refresh_token |-> r, expires_in |-> e, auth_time |-> at, acr |-> acr] :
        r \in {0, id}, e \in ExpiresInSet, at \in AuthTimeSet, acr \in AcrSet }

\* the record parseAndSaveTokenResponse builds from the response and the token params
LoginAccessToken(tokenResponse, tokenParams, ms) ==
    [ refreshToken |-> tokenResponse.refresh_token,
      accessToken  |-> tokenResponse.access_token,
      expiresAt    |-> calculateEpochExpiry(tokenResponse.expires_in, tokenResponse.auth_time, ms),
      audience     |-> tokenParams.audience,
      scope        |-> tokenParams.scope,
      maxAgeExpiry |-> IF tokenParams.maxAge # 0
                       THEN calculateEpochExpiry(tokenParams.maxAge, tokenResponse.auth_time, ms)
                       ELSE 0,
      acr          |-> tokenResponse.acr ]

\* parseAndSaveTokenResponse: a completed login stores the record it obtained
ParseAndSaveTokenResponse ==
    /\ pc = "idle"
    /\ Len(accessTokens) < MaxTokens
    /\ \E tokenParams \in TokenParamsSet, tokenResponse \in TokenResponses(FreshId) :
          accessTokens' =
              saveAccessToken(accessTokens, LoginAccessToken(tokenResponse, tokenParams, clock))
    /\ UNCHANGED <<extraVars, rbaVars, clock, config, pc, call, oidcVars>>

\* mutant: the refreshed record loses the expired record's acr
RefreshedAccessTokenNoAcr(requestedToken, tokenResponse, ms) ==
    [ accessToken  |-> tokenResponse.access_token,
      refreshToken |-> tokenResponse.refresh_token,
      expiresAt    |-> calculateEpochExpiry(tokenResponse.expires_in, tokenResponse.auth_time, ms),
      audience     |-> requestedToken.audience,
      scope        |-> requestedToken.scope,
      maxAgeExpiry |-> 0,
      acr          |-> Undefined ]

\* the record the refresh branch of getAccessToken builds: the expired token's
\* scope, audience and acr with the response's tokens and expiry
RefreshedAccessToken(requestedToken, tokenResponse, ms) ==
    [ accessToken  |-> tokenResponse.access_token,
      refreshToken |-> tokenResponse.refresh_token,
      expiresAt    |-> calculateEpochExpiry(tokenResponse.expires_in, tokenResponse.auth_time, ms),
      audience     |-> requestedToken.audience,
      scope        |-> requestedToken.scope,
      maxAgeExpiry |-> 0,
      acr          |-> requestedToken.acr ]

\* mutant: the requested acrValues are not handed on to oidc.login
LoginOptionsNoAcr(scope, audience, acrValues, fallbackAuthorizationOptions) ==
    [ scope |-> scope,
      audience |-> audience,
      popup |-> fallbackAuthorizationOptions.popup,
      useRefreshToken |-> fallbackAuthorizationOptions.useRefreshToken,
      acrValues |-> <<>> ]

\* the options getAccessToken hands to oidc.login
LoginOptions(scope, audience, acrValues, fallbackAuthorizationOptions) ==
    [ scope |-> scope,
      audience |-> audience,
      popup |-> fallbackAuthorizationOptions.popup,
      useRefreshToken |-> fallbackAuthorizationOptions.useRefreshToken,
      acrValues |-> acrValues ]

\* getAccessToken up to its first await: purge, filter, sort, take the first.
\* The two reads of Date.now() (removeUnusableTokens, then getAccessToken) fall in
\* the same synchronous run and read the same millisecond.
GetAccessToken ==
    /\ pc = "idle"
    /\ \E scope \in RequestScopes, audience \in RequestAudiences,
          acrValues \in RequestAcrValues, fallback \in FallbackSet :
        LET purged == removeUnusableTokens(accessTokens, clock)
            sorted == SortTokens(FilterTokens(getAccessTokens(purged), scope, audience, acrValues))
            base == [ NoCall EXCEPT !.scope = scope, !.audience = audience,
                                    !.acrValues = acrValues, !.fallback = fallback,
                                    !.now = clock,
                                    !.before = accessTokens, !.purged = purged ]
        IN /\ accessTokens' = purged
           /\ IF sorted # <<>>
              THEN LET requestedToken == sorted[1]
                       found == [base EXCEPT !.requestedToken = <<requestedToken>>]
                   IN IF NotExpired(requestedToken, clock)
                      THEN /\ call' = [found EXCEPT !.result = Returned(requestedToken.accessToken)]
                           /\ pc' = "done"
                      ELSE IF requestedToken.refreshToken = 0
                      THEN /\ call' = [found EXCEPT !.result = Thrown(ErrNotRemoved)]
                           /\ pc' = "done"
                      ELSE IF config
                      THEN /\ call' = [found EXCEPT !.refreshRequests = 1, !.grant = "sent"]
                           /\ pc' = "requestToken"
                      ELSE /\ call' = found
                           /\ pc' = "getConfig"
              ELSE IF fallback # <<>>
              THEN /\ call' = [base EXCEPT !.loginCalls =
                                  <<LoginOptions(scope, audience, acrValues, fallback[1])>>]
                   /\ pc' = "login"
              ELSE /\ call' = [base EXCEPT !.result = Thrown(ErrNotFound)]
                   /\ pc' = "done"
    /\ UNCHANGED <<extraVars, rbaVars, clock, config, oidcVars>>

\* requestTokenUsingRefreshToken: getConfig fetched the discovery document,
\* the refresh_token grant is sent
FetchConfigOk ==
    /\ pc = "getConfig"
    /\ config' = TRUE
    /\ call' = [call EXCEPT !.refreshRequests = @ + 1, !.grant = "sent"]
    /\ pc' = "requestToken"
    /\ UNCHANGED <<extraVars, rbaVars, accessTokens, clock, oidcVars>>

\* fetchOpenidConfiguration threw: getAccessToken rejects with it
FetchConfigFail ==
    /\ pc = "getConfig"
    /\ call' = [call EXCEPT !.result = Thrown(ErrConfig)]
    /\ pc' = "done"
    /\ UNCHANGED <<extraVars, rbaVars, accessTokens, clock, config, oidcVars>>

\* the refresh grant succeeded: replace the expired record, return the new token
RequestTokenOk ==
    /\ pc = "requestToken"
    /\ \E tokenResponse \in TokenResponses(FreshId) :
         LET requestedToken == call.requestedToken[1]
             newAccessToken == RefreshedAccessToken(requestedToken, tokenResponse, clock)
         IN /\ accessTokens' =
                  saveAccessToken(removeAccessToken(accessTokens, requestedToken), newAccessToken)
            /\ call' = [call EXCEPT !.response = <<tokenResponse>>, !.grant = "ok",
                                    !.result = Returned(tokenResponse.access_token)]
    /\ pc' = "done"
    /\ UNCHANGED <<extraVars, rbaVars, clock, config, oidcVars>>

\* mutant: a failed refresh grant is sent again
RequestTokenFailRetries ==
    /\ pc = "requestToken"
    /\ call' = [call EXCEPT !.refreshRequests = @ + 1]
    /\ UNCHANGED <<extraVars, rbaVars, accessTokens, clock, config, pc, oidcVars>>

\* mutant: a failed refresh grant falls back to the login when options were given
RequestTokenFailFallsBack ==
    /\ pc = "requestToken"
    /\ IF call.fallback # <<>>
       THEN /\ call' = [call EXCEPT !.grant = "failed", !.loginCalls =
                           <<LoginOptions(call.scope, call.audience, call.acrValues, call.fallback[1])>>]
            /\ pc' = "login"
       ELSE /\ call' = [call EXCEPT !.grant = "failed", !.result = Thrown(ErrToken)]
            /\ pc' = "done"
    /\ UNCHANGED <<extraVars, rbaVars, accessTokens, clock, config, oidcVars>>

\* the refresh grant failed: requestToken threw, getAccessToken rejects with it
RequestTokenFail ==
    /\ pc = "requestToken"
    /\ call' = [call EXCEPT !.grant = "failed", !.result = Thrown(ErrToken)]
    /\ pc' = "done"
    /\ UNCHANGED <<extraVars, rbaVars, accessTokens, clock, config, oidcVars>>

\* mutant: the redirect login resolves with a token string instead of null
LoginRedirectsReturnsToken ==
    /\ pc = "login"
    /\ ~call.loginCalls[1].popup
    /\ config' = TRUE
    /\ call' = [call EXCEPT !.result = Returned(FreshId)]
    /\ pc' = "done"
    /\ UNCHANGED <<extraVars, rbaVars, accessTokens, clock, oidcVars>>

\* the fallback oidc.login started a redirect login and resolved with null
LoginRedirects ==
    /\ pc = "login"
    /\ ~call.loginCalls[1].popup
    /\ config' = TRUE
    /\ call' = [call EXCEPT !.result = Returned(0)]
    /\ pc' = "done"
    /\ UNCHANGED <<extraVars, rbaVars, accessTokens, clock, oidcVars>>

\* the fallback oidc.login rejected (discovery, popup, validation or token error)
LoginFails ==
    /\ pc = "login"
    /\ call' = [call EXCEPT !.result = Thrown(ErrLogin)]
    /\ pc' = "done"
    /\ UNCHANGED <<extraVars, rbaVars, accessTokens, clock, config, oidcVars>>

\* the caller takes the outcome; the client is idle again
Resume ==
    /\ pc = "done"
    /\ pc' = "idle"
    /\ call' = NoCall
    /\ UNCHANGED <<extraVars, rbaVars, accessTokens, clock, config, oidcVars>>

Next ==
    \/ Tick
    \/ ParseAndSaveTokenResponse
    \/ GetAccessToken
    \/ FetchConfigOk
    \/ FetchConfigFail
    \/ RequestTokenOk
    \/ RequestTokenFail
    \/ LoginRedirects
    \/ LoginFails
    \/ Resume

Spec == Init /\ [][Next]_vars

----------------------------------------------------------------------------
(* OidcClient: login, handleRedirect, logout *)

MaxLogins == 2              \* authorization URLs generated in one behaviour
RandomStringsPerUrl == 3    \* state, nonce and code verifier

\* the options of oidc.login: every scope with and without a refresh token, and
\* every maxAge with and without an audience, each as a redirect and as a popup
\* login
OidcLoginOptionsSet ==
    [ scope : {None, Some(ScopeProfileEmail), Some(ScopeOpenidProfileProfileEmail), Some(<<>>)},
      audience : {None},
      useRefreshToken : BOOLEAN,
      popup : BOOLEAN,
      acrValues : {None},
      maxAge : {None} ]
    \cup
    [ scope : {None},
      audience : {None, Some("X")},
      useRefreshToken : {FALSE},
      popup : BOOLEAN,
      acrValues : {None, Some(<<"p">>)},
      maxAge : {None, Some(-1), Some(0), Some(300)} ]

LogoutRedirectUris == {None, Some("https://app.example.com/post-logout")}

\* the options loginWithPopup / loginWithRedirect hand to generateAuthorizationUrl
GenerateAuthorizationUrlOptions(options, href) ==
    [ clientId |-> clientId,
      responseMode |-> IF options.popup THEN Some("web_message") ELSE Some("query"),
      redirectUri |-> Some(sanitizeUri(href)),
      useRefreshToken |-> options.useRefreshToken,
      scope |-> OrElse(options.scope, globalScope),
      audience |-> OrElse(options.audience, globalAudience),
      acrValues |-> OrElse(options.acrValues, <<>>),
      maxAge |-> Some(OrElse(options.maxAge, -1)) ]

Storage == StorageOf(idToken, accessTokens, savedTokenParams, savedClientParams)

\* an operation of the client starts: what it finds
Begin(kind) ==
    [ NoOp EXCEPT !.kind = kind, !.before = Storage, !.href = location,
                  !.drawnBefore = rnd, !.cached = config ]

\* oidc.login up to its first await: a popup login opens the popup window, then
\* both await getConfig
LoginWith(optionsSet) ==
    /\ opc = "idle" /\ pc = "idle"
    /\ location.origin = "app"
    /\ rnd + RandomStringsPerUrl <= RandomStringsPerUrl * MaxLogins
    /\ \E options \in optionsSet :
          op' = [ Begin("login") EXCEPT !.options = Some(options),
                      !.popupWindow = IF options.popup THEN "open" ELSE "none" ]
    /\ opc' = "loginConfig"
    /\ UNCHANGED <<extraVars, rbaVars, accessTokens, config, ledgerVars, idToken, savedTokenParams,
                   savedClientParams, location, rnd, provider>>

Login == LoginWith(OidcLoginOptionsSet)

\* getConfig rejected: the discovery document could not be fetched
ConfigFail(at) ==
    /\ opc = at
    /\ ~config
    /\ op' = [op EXCEPT !.configFetches = @ + 1, !.result = Thrown(ErrConfig)]
    /\ opc' = "done"
    /\ UNCHANGED <<extraVars, rbaVars, accessTokens, config, ledgerVars, idToken, savedTokenParams,
                   savedClientParams, location, rnd, provider>>

LoginConfigFail == ConfigFail("loginConfig")

\* mutant: the response mode looked for is query
PopupSupportedQuery(oidcConfig) == "query" \in oidcConfig.response_modes_supported

\* response_modes_supported?.includes("web_message")
PopupSupported(oidcConfig) == "web_message" \in oidcConfig.response_modes_supported

\* mutant: a redirect login keeps the client params of an earlier login
LoginConfigOkKeepsClientParams ==
    /\ opc = "loginConfig"
    /\ config' = TRUE
    /\ LET options == op.options[1]
           fetched == [op EXCEPT !.configFetches = IF config THEN @ ELSE @ + 1]
           popupSupported == PopupSupported(provider)
           g == generateAuthorizationUrl(
                    GenerateAuthorizationUrlOptions(options, location), rnd)
       IN IF options.popup /\ ~popupSupported
          THEN /\ op' = [fetched EXCEPT !.popupWindow = "closed",
                                        !.result = Thrown(ErrPopupUnsupported)]
               /\ opc' = "done"
               /\ UNCHANGED <<savedTokenParams, savedClientParams, location, rnd>>
          ELSE /\ savedTokenParams' = Some(g.tokenParams)
               /\ rnd' = g.drawn
               /\ IF options.popup
                  THEN /\ op' = [fetched EXCEPT !.generated = Some(g),
                                                !.expectedState = Some(g.state)]
                       /\ opc' = "popup"
                       /\ UNCHANGED <<savedClientParams, location>>
                  ELSE /\ savedClientParams' =
                              IF savedClientParams # None THEN savedClientParams
                              ELSE Some([ nonce |-> g.nonce, state |-> g.state,
                                          codeVerifier |-> g.codeVerifier,
                                          redirectUri |-> sanitizeUri(location) ])
                       /\ location' = g.url
                       /\ op' = [fetched EXCEPT !.generated = Some(g),
                                                !.result = Returned(0)]
                       /\ opc' = "done"
    /\ UNCHANGED <<extraVars, rbaVars, accessTokens, ledgerVars, idToken, provider>>

\* getConfig resolved.  A popup login without web_message support closes the
\* popup and throws; otherwise the authorization URL is generated and the token
\* params are saved; a redirect login saves the client params and navigates, a
\* popup login opens the URL in the popup and listens
LoginConfigOk ==
    /\ opc = "loginConfig"
    /\ config' = TRUE
    /\ LET options == op.options[1]
           fetched == [op EXCEPT !.configFetches = IF config THEN @ ELSE @ + 1]
           popupSupported == PopupSupported(provider)
           g == generateAuthorizationUrl(
                    GenerateAuthorizationUrlOptions(options, location), rnd)
       IN IF options.popup /\ ~popupSupported
          THEN /\ op' = [fetched EXCEPT !.popupWindow = "closed",
                                        !.result = Thrown(ErrPopupUnsupported)]
               /\ opc' = "done"
               /\ UNCHANGED <<savedTokenParams, savedClientParams, location, rnd>>
          ELSE /\ savedTokenParams' = Some(g.tokenParams)
               /\ rnd' = g.drawn
               /\ IF options.popup
                  THEN /\ op' = [fetched EXCEPT !.generated = Some(g),
                                                !.expectedState = Some(g.state)]
                       /\ opc' = "popup"
                       /\ UNCHANGED <<savedClientParams, location>>
                  ELSE /\ savedClientParams' =
                              Some([ nonce |-> g.nonce, state |-> g.state,
                                     codeVerifier |-> g.codeVerifier,
                                     redirectUri |-> sanitizeUri(location) ])
                       /\ location' = g.url
                       /\ op' = [fetched EXCEPT !.generated = Some(g),
                                                !.result = Returned(0)]
                       /\ opc' = "done"
    /\ UNCHANGED <<extraVars, rbaVars, accessTokens, ledgerVars, idToken, provider>>

\* the authorization responses a popup or a callback URL can carry for a flow
\* whose state is expected: the expected or a foreign state, a code or an error
AuthorizeResponses(expected) ==
    { [state |-> Some(st), code |-> c, error |-> e] :
        st \in {expected, ForgedState},
        c \in {None, Some("code")}, e \in {None, Some("access_denied")} }

\* the token request of requestAndValidateTokens is sent
SendTokenRequest(o, code, codeVerifier, redirectUri) ==
    [o EXCEPT !.tokenRequests = Append(@, AccessTokenRequest(code, codeVerifier, redirectUri))]

\* listenToAuthorizePopup resolved: the response is validated and, when valid,
\* exchanged (getConfig is cached by now)
PopupResponds ==
    /\ opc = "popup"
    /\ \E response \in AuthorizeResponses(op.expectedState[1]) :
          LET g == op.generated[1]
              v == validateAuthorizeResponse(response, g.state)
              heard == [op EXCEPT !.authorizeResponse = Some(response)]
          IN IF v.ok
             THEN /\ op' = SendTokenRequest(heard, v.code[1], g.codeVerifier,
                                            sanitizeUri(location))
                  /\ opc' = "exchange"
             ELSE /\ op' = [heard EXCEPT !.result = Thrown(v.error)]
                  /\ opc' = "done"
    /\ UNCHANGED <<extraVars, rbaVars, accessTokens, config, ledgerVars, idToken, savedTokenParams,
                   savedClientParams, location, rnd, provider>>

\* listenToAuthorizePopup rejected (the popup was closed or timed out)
PopupFails ==
    /\ opc = "popup"
    /\ op' = [op EXCEPT !.result = Thrown(ErrPopup)]
    /\ opc' = "done"
    /\ UNCHANGED <<extraVars, rbaVars, accessTokens, config, ledgerVars, idToken, savedTokenParams,
                   savedClientParams, location, rnd, provider>>

\* oidc.handleRedirect up to its first await: parseRedirect strips the query of
\* a callback, the client params are read, the response is validated
HandleRedirect ==
    /\ opc = "idle" /\ pc = "idle"
    /\ location.origin = "app"
    /\ LET parsed == parseRedirect(location)
           begun == [Begin("handleRedirect") EXCEPT !.authorizeResponse = parsed.authorizeResponse]
       IN /\ location' = parsed.href
          /\ IF parsed.authorizeResponse = None
             THEN /\ op' = [begun EXCEPT !.result = Returned(0)]
                  /\ opc' = "done"
             ELSE IF savedClientParams = None
             THEN /\ op' = [begun EXCEPT !.result = Thrown(ErrClientState)]
                  /\ opc' = "done"
             ELSE LET clientParams == savedClientParams[1]
                      v == validateAuthorizeResponse(parsed.authorizeResponse[1],
                                                     clientParams.state)
                      expecting == [begun EXCEPT !.expectedState = Some(clientParams.state)]
                  IN IF v.ok
                     THEN /\ op' = [expecting EXCEPT !.validated = v.code]
                          /\ opc' = "exchangeConfig"
                     ELSE /\ op' = [expecting EXCEPT !.result = Thrown(v.error)]
                          /\ opc' = "done"
    /\ UNCHANGED <<extraVars, rbaVars, accessTokens, config, ledgerVars, idToken, savedTokenParams,
                   savedClientParams, rnd, provider>>

ExchangeConfigFail == ConfigFail("exchangeConfig")

\* requestAndValidateTokens of handleRedirect: getConfig resolved, the token
\* request is sent
ExchangeConfigOk ==
    /\ opc = "exchangeConfig"
    /\ config' = TRUE
    /\ LET clientParams == op.before.clientParams[1]
           fetched == [op EXCEPT !.configFetches = IF config THEN @ ELSE @ + 1]
       IN op' = SendTokenRequest(fetched, op.validated[1], clientParams.codeVerifier,
                                 clientParams.redirectUri)
    /\ opc' = "exchange"
    /\ UNCHANGED <<extraVars, rbaVars, accessTokens, ledgerVars, idToken, savedTokenParams,
                   savedClientParams, location, rnd, provider>>

\* the token params as parseAndSaveTokenResponse reads maxAge (absent and 0 are
\* both falsy)
ReadTokenParams(tokenParams) ==
    [ scope |-> tokenParams.scope, audience |-> tokenParams.audience,
      maxAge |-> OrElse(tokenParams.maxAge, 0) ]

\* the token request resolved and the id token is valid:
\* parseAndSaveTokenResponse removes the token params and saves the id token and
\* the access token, or throws when no token params are stored
ExchangeOk ==
    /\ opc = "exchange"
    /\ \E tokenResponse \in TokenResponses(FreshId) :
          IF savedTokenParams = None
          THEN /\ op' = [op EXCEPT !.validated = Some(tokenResponse),
                                   !.result = Thrown(ErrNoTokenParams)]
               /\ UNCHANGED <<accessTokens, idToken, savedTokenParams>>
          ELSE /\ savedTokenParams' = None
               /\ idToken' = tokenResponse.access_token
               /\ accessTokens' =
                     saveAccessToken(accessTokens,
                         LoginAccessToken(tokenResponse,
                                          ReadTokenParams(savedTokenParams[1]), clock))
               /\ op' = [op EXCEPT !.validated = Some(tokenResponse),
                                   !.result = IF op.kind = "login"
                                              THEN Returned(tokenResponse.access_token)
                                              ELSE Returned(0)]
    /\ opc' = "done"
    /\ UNCHANGED <<extraVars, rbaVars, config, ledgerVars, savedClientParams, location, rnd, provider>>

\* the token request failed or validateIdToken threw
ExchangeFail ==
    /\ opc = "exchange"
    /\ op' = [op EXCEPT !.result = Thrown(ErrToken)]
    /\ opc' = "done"
    /\ UNCHANGED <<extraVars, rbaVars, accessTokens, config, ledgerVars, idToken, savedTokenParams,
                   savedClientParams, location, rnd, provider>>

\* oidc.logout up to its await: the storage is cleared, generateLogoutUrl awaits
\* getConfig
Logout ==
    /\ opc = "idle" /\ pc = "idle"
    /\ location.origin = "app"
    /\ \E redirectUri \in LogoutRedirectUris :
          op' = [Begin("logout") EXCEPT !.options = Some([redirectUri |-> redirectUri])]
    /\ idToken' = EmptyStorage.idToken
    /\ accessTokens' = EmptyStorage.accessTokens
    /\ savedTokenParams' = EmptyStorage.tokenParams
    /\ savedClientParams' = EmptyStorage.clientParams
    /\ opc' = "logoutConfig"
    /\ UNCHANGED <<extraVars, rbaVars, config, ledgerVars, location, rnd, provider>>

LogoutConfigFail == ConfigFail("logoutConfig")

\* generateLogoutUrl resolved: the browser navigates to the end-session URL
LogoutConfigOk ==
    /\ opc = "logoutConfig"
    /\ config' = TRUE
    /\ LET url == generateLogoutUrl(op.options[1].redirectUri)
       IN /\ location' = url
          /\ op' = [op EXCEPT !.configFetches = IF config THEN @ ELSE @ + 1,
                              !.logoutUrls = Append(@, url),
                              !.result = Returned(0)]
    /\ opc' = "done"
    /\ UNCHANGED <<extraVars, rbaVars, accessTokens, ledgerVars, idToken, savedTokenParams,
                   savedClientParams, rnd, provider>>

\* the caller takes the outcome of the operation
OidcResume ==
    /\ opc = "done"
    /\ opc' = "idle"
    /\ op' = NoOp
    /\ UNCHANGED <<extraVars, rbaVars, accessTokens, config, ledgerVars, idToken, savedTokenParams,
                   savedClientParams, location, rnd, provider>>

\* the URLs the browser can load the application with: the plain page, a page
\* with a query that is no authorization response, or a callback of the
\* provider (for the stored flow, if any, or a foreign one)
AppLocations ==
    {AppUrl}
    \cup { [origin |-> "app", query |-> Some([state |-> None, code |-> Some("code"), error |-> None])] }
    \cup { [origin |-> "app", query |-> Some(r)] :
              r \in AuthorizeResponses(IF savedClientParams = None THEN ForgedState
                                       ELSE savedClientParams[1].state) }

\* the browser loads the application anew (the provider redirects back, the
\* user follows a link or goes back): the page starts without a cached
\* discovery document and without a transaction, the storage persists
Navigate ==
    /\ opc = "idle" /\ pc = "idle" /\ rbac = "idle"
    /\ \E href \in AppLocations : location' = href
    /\ location' # location
    /\ config' = FALSE
    /\ authenticationTransaction' = None
    /\ UNCHANGED <<extraVars, accessTokens, ledgerVars, idToken, savedTokenParams,
                   savedClientParams, rnd, provider, opc, op,
                   transactions, rbac, rba, getConfigCalls, configFetches>>

OidcInit ==
    /\ accessTokens = <<>>
    /\ clock = 0
    /\ config = FALSE
    /\ pc = "idle"
    /\ call = NoCall
    /\ OidcIdle
    /\ RbaIdle
    /\ ExtraIdle
    /\ provider \in { [response_modes_supported |-> {"query", "web_message"}],
                      [response_modes_supported |-> {"query"}] }

OidcNext ==
    \/ Login
    \/ LoginConfigOk
    \/ LoginConfigFail
    \/ PopupResponds
    \/ PopupFails
    \/ HandleRedirect
    \/ ExchangeConfigOk
    \/ ExchangeConfigFail
    \/ ExchangeOk
    \/ ExchangeFail
    \/ Logout
    \/ LogoutConfigOk
    \/ LogoutConfigFail
    \/ OidcResume
    \/ Navigate

OidcSpec == OidcInit /\ [][OidcNext]_vars

----------------------------------------------------------------------------
(* RbaClient: requestChallenge, submitChallenge, poll, cancel *)

hostedVars == <<savedTokenParams, savedClientParams, location, rnd, provider, opc, op>>

configVars == <<getConfigCalls, configFetches>>

\* the transaction object the context refers to, if any
LiveObject ==
    IF authenticationTransaction = None THEN None
    ELSE Some(transactions[authenticationTransaction[1]])

\* an operation of the RbaClient starts: what it finds
RbaBegin(kind) ==
    [ NoRba EXCEPT !.kind = kind, !.before = Storage,
                   !.liveBefore = authenticationTransaction,
                   !.tx = authenticationTransaction,
                   !.objectBefore = LiveObject ]

\* the application runs and no other operation of the client is in flight
RbaCanStart ==
    /\ rbac = "idle" /\ opc = "idle" /\ pc = "idle"
    /\ location.origin = "app"

\* a request of the transaction object id to the server
RbaRequest(kind, id) == [kind |-> kind, tx |-> id]

\* rba.requestChallenge up to its first await: initializeAuthenticationTransaction
\* awaits getConfig
RequestChallenge ==
    /\ RbaCanStart
    /\ Len(transactions) < MaxTransactions
    /\ \E method \in RbaMethods, tokenOptions \in RbaTokenOptionsSet :
          rba' = [ RbaBegin("requestChallenge") EXCEPT
                     !.options = Some([method |-> method, tokenOptions |-> tokenOptions]) ]
    /\ rbac' = "initConfig"
    /\ UNCHANGED <<extraVars, accessTokens, config, ledgerVars, idToken, hostedVars,
                   authenticationTransaction, transactions, configVars>>

\* getConfig rejected: requestChallenge rejects, the field is not assigned
InitConfigFail ==
    /\ rbac = "initConfig"
    /\ ~config
    /\ rba' = [rba EXCEPT !.result = Thrown(ErrConfig)]
    /\ rbac' = "done"
    /\ UNCHANGED <<extraVars, accessTokens, config, ledgerVars, idToken, hostedVars,
                   authenticationTransaction, transactions, configVars>>

\* getConfig resolved: the new transaction is assigned to the context and its
\* challenge is requested
InitConfigOk ==
    /\ rbac = "initConfig"
    /\ config' = TRUE
    /\ LET options == rba.options[1]
           initialized ==
               initializeAuthenticationTransaction(authenticationTransaction, transactions,
                                                   options.method, options.tokenOptions)
           current == initialized.authenticationTransaction
       IN /\ authenticationTransaction' = current
          /\ transactions' = initialized.transactions
          /\ rba' = [rba EXCEPT !.tx = current,
                                !.requests = Append(@, RbaRequest("request", current[1]))]
    /\ rbac' = "requestAuthChallenge"
    /\ UNCHANGED <<extraVars, accessTokens, ledgerVars, idToken, hostedVars, configVars>>

\* the server answered with a challenge
RequestAuthChallengeOk ==
    /\ rbac = "requestAuthChallenge"
    /\ LET id == rba.tx[1]
           response == ChallengeResponse(transactions[id].method)
       IN /\ transactions' =
                [transactions EXCEPT ![id] = Responded(@, response, 0, None, clock)]
          /\ rba' = [rba EXCEPT !.response = Some(response), !.result = Returned(response)]
    /\ rbac' = "done"
    /\ UNCHANGED <<extraVars, accessTokens, config, ledgerVars, idToken, hostedVars,
                   authenticationTransaction, configVars>>

\* the challenge request failed: the new transaction stays in the context
RequestAuthChallengeFail ==
    /\ rbac = "requestAuthChallenge"
    /\ rba' = [rba EXCEPT !.result = Thrown(ErrRba)]
    /\ rbac' = "done"
    /\ UNCHANGED <<extraVars, accessTokens, config, ledgerVars, idToken, hostedVars,
                   authenticationTransaction, transactions, configVars>>

\* a response of the server to a submission or a status check arrived: the
\* transaction object takes it, and a completed one is handled
Respond(response, maxAge) ==
    LET id == rba.tx[1]
        objects == [transactions EXCEPT ![id] = Responded(@, response, FreshId, maxAge, clock)]
        handled ==
            IF CompletionHandled(response)
            THEN handleAuthenticationTransactionSuccess(authenticationTransaction, objects,
                                                        idToken, accessTokens, clock)
            ELSE [ error |-> None, idToken |-> idToken, accessTokens |-> accessTokens,
                   authenticationTransaction |-> authenticationTransaction ]
    IN /\ transactions' = objects
       /\ idToken' = handled.idToken
       /\ accessTokens' = handled.accessTokens
       /\ authenticationTransaction' = handled.authenticationTransaction
       /\ rba' = [rba EXCEPT !.response = Some(response),
                             !.result = IF handled.error # None
                                        THEN Thrown(handled.error[1])
                                        ELSE Returned(response)]
       /\ rbac' = "done"

\* rba.submitChallenge up to its await: without transaction it throws, else the
\* submission is sent
SubmitChallenge ==
    /\ RbaCanStart
    /\ LET guard == GuardTransaction(authenticationTransaction)
       IN IF guard # None
          THEN /\ rba' = [RbaBegin("submitChallenge") EXCEPT !.result = Thrown(guard[1])]
               /\ rbac' = "done"
          ELSE /\ rba' = [ RbaBegin("submitChallenge") EXCEPT
                             !.requests = <<RbaRequest("submit", authenticationTransaction[1])>> ]
               /\ rbac' = "submitAuthChallenge"
    /\ UNCHANGED <<extraVars, accessTokens, config, ledgerVars, idToken, hostedVars,
                   authenticationTransaction, transactions, configVars>>

\* the server answered the submission of a transaction whose challenge is open
SubmitAuthChallengeOk ==
    /\ rbac = "submitAuthChallenge"
    /\ transactions[rba.tx[1]].state \in {"AwaitingSubmission", "AwaitingPoll"}
    /\ \E response \in SubmitResponses(transactions[rba.tx[1]].method) :
          \E maxAge \in IF response.authenticationCompleted THEN RbaMaxAges ELSE {None} :
              Respond(response, maxAge)
    /\ UNCHANGED <<extraVars, config, ledgerVars, hostedVars, configVars>>

\* mutant: a failed submission discards the transaction
SubmitAuthChallengeFailDiscards ==
    /\ rbac = "submitAuthChallenge"
    /\ rba' = [rba EXCEPT !.result = Thrown(ErrRba)]
    /\ rbac' = "done"
    /\ authenticationTransaction' = None
    /\ UNCHANGED <<extraVars, accessTokens, config, ledgerVars, idToken, hostedVars,
                   transactions, configVars>>

\* the submission failed: submitChallenge rejects
SubmitAuthChallengeFail ==
    /\ rbac = "submitAuthChallenge"
    /\ rba' = [rba EXCEPT !.result = Thrown(ErrRba)]
    /\ rbac' = "done"
    /\ UNCHANGED <<extraVars, accessTokens, config, ledgerVars, idToken, hostedVars,
                   authenticationTransaction, transactions, configVars>>

\* mutant: the status check is sent whatever the transaction awaits
PollAlwaysSends ==
    /\ RbaCanStart
    /\ LET guard == GuardTransaction(authenticationTransaction)
       IN IF guard # None
          THEN /\ rba' = [RbaBegin("poll") EXCEPT !.result = Thrown(guard[1])]
               /\ rbac' = "done"
          ELSE /\ rba' = [ RbaBegin("poll") EXCEPT
                             !.requests = <<RbaRequest("poll", authenticationTransaction[1])>> ]
               /\ rbac' = "pollForAuthCompletion"
    /\ UNCHANGED <<extraVars, accessTokens, config, ledgerVars, idToken, hostedVars,
                   authenticationTransaction, transactions, configVars>>

\* rba.poll up to its await: without transaction it throws; the transaction
\* rejects a status check it does not await, else one status check is sent
Poll ==
    /\ RbaCanStart
    /\ LET guard == GuardTransaction(authenticationTransaction)
       IN IF guard # None
          THEN /\ rba' = [RbaBegin("poll") EXCEPT !.result = Thrown(guard[1])]
               /\ rbac' = "done"
          ELSE IF ~AwaitsPoll(LiveObject[1])
          THEN /\ rba' = [RbaBegin("poll") EXCEPT !.result = Thrown(ErrNotAwaitingPoll)]
               /\ rbac' = "done"
          ELSE /\ rba' = [ RbaBegin("poll") EXCEPT
                             !.requests = <<RbaRequest("poll", authenticationTransaction[1])>> ]
               /\ rbac' = "pollForAuthCompletion"
    /\ UNCHANGED <<extraVars, accessTokens, config, ledgerVars, idToken, hostedVars,
                   authenticationTransaction, transactions, configVars>>

\* the server answered the status check
PollForAuthCompletionOk ==
    /\ rbac = "pollForAuthCompletion"
    /\ \E response \in PollResponses(transactions[rba.tx[1]].method) :
          \E maxAge \in IF response.authenticationCompleted THEN RbaMaxAges ELSE {None} :
              Respond(response, maxAge)
    /\ UNCHANGED <<extraVars, config, ledgerVars, hostedVars, configVars>>

\* the status check failed: poll rejects
PollForAuthCompletionFail ==
    /\ rbac = "pollForAuthCompletion"
    /\ rba' = [rba EXCEPT !.result = Thrown(ErrRba)]
    /\ rbac' = "done"
    /\ UNCHANGED <<extraVars, accessTokens, config, ledgerVars, idToken, hostedVars,
                   authenticationTransaction, transactions, configVars>>

\* mutant: cancel removes the stored tokens
CancelClearsTokens ==
    /\ RbaCanStart
    /\ LET guard == GuardTransaction(authenticationTransaction)
       IN IF guard # None
          THEN /\ rba' = [RbaBegin("cancel") EXCEPT !.result = Thrown(guard[1])]
               /\ rbac' = "done"
               /\ UNCHANGED <<transactions, accessTokens, idToken>>
          ELSE /\ transactions' =
                     [transactions EXCEPT ![authenticationTransaction[1]].state = "Cancelled"]
               /\ rba' = [ RbaBegin("cancel") EXCEPT
                             !.requests = <<RbaRequest("cancel", authenticationTransaction[1])>> ]
               /\ rbac' = "cancelAuthChallenge"
               /\ accessTokens' = <<>>
               /\ idToken' = 0
    /\ UNCHANGED <<extraVars, config, ledgerVars, hostedVars, authenticationTransaction, configVars>>

\* rba.cancel up to its await: without transaction it throws, else the
\* transaction object is marked cancelled and the server is told
Cancel ==
    /\ RbaCanStart
    /\ LET guard == GuardTransaction(authenticationTransaction)
       IN IF guard # None
          THEN /\ rba' = [RbaBegin("cancel") EXCEPT !.result = Thrown(guard[1])]
               /\ rbac' = "done"
               /\ UNCHANGED transactions
          ELSE /\ transactions' =
                     [transactions EXCEPT ![authenticationTransaction[1]].state = "Cancelled"]
               /\ rba' = [ RbaBegin("cancel") EXCEPT
                             !.requests = <<RbaRequest("cancel", authenticationTransaction[1])>> ]
               /\ rbac' = "cancelAuthChallenge"
    /\ UNCHANGED <<extraVars, accessTokens, config, ledgerVars, idToken, hostedVars,
                   authenticationTransaction, configVars>>

\* cancelAuthChallenge settled: cancel resolves
CancelAuthChallengeDone ==
    /\ rbac = "cancelAuthChallenge"
    /\ rba' = [rba EXCEPT !.result = Returned(0)]
    /\ rbac' = "done"
    /\ UNCHANGED <<extraVars, accessTokens, config, ledgerVars, idToken, hostedVars,
                   authenticationTransaction, transactions, configVars>>

\* the caller takes the outcome of the operation
RbaResume ==
    /\ rbac = "done"
    /\ rbac' = "idle"
    /\ rba' = NoRba
    /\ UNCHANGED <<extraVars, accessTokens, config, ledgerVars, idToken, hostedVars,
                   authenticationTransaction, transactions, configVars>>

RbaNext ==
    \/ RequestChallenge
    \/ InitConfigOk
    \/ InitConfigFail
    \/ RequestAuthChallengeOk
    \/ RequestAuthChallengeFail
    \/ SubmitChallenge
    \/ SubmitAuthChallengeOk
    \/ SubmitAuthChallengeFail
    \/ Poll
    \/ PollForAuthCompletionOk
    \/ PollForAuthCompletionFail
    \/ Cancel
    \/ CancelAuthChallengeDone
    \/ RbaResume

RbaSpec == Init /\ [][RbaNext]_vars

----------------------------------------------------------------------------
(* getConfig called by operations that overlap *)

\* getConfig up to its await: the cached document is returned, else the
\* discovery document is requested
GetConfig(c) ==
    /\ getConfigCalls[c].pc = "idle"
    /\ IF config
       THEN /\ getConfigCalls' =
                  [getConfigCalls EXCEPT ![c] = [pc |-> "returned", sent |-> FALSE,
                                                 cachedAtCall |-> TRUE]]
            /\ UNCHANGED configFetches
       ELSE /\ configFetches.sent < MaxFetches
            /\ getConfigCalls' =
                  [getConfigCalls EXCEPT ![c] = [pc |-> "fetching", sent |-> TRUE,
                                                 cachedAtCall |-> FALSE]]
            /\ configFetches' = [configFetches EXCEPT !.sent = @ + 1]
    /\ UNCHANGED <<extraVars, accessTokens, config, ledgerVars, oidcVars,
                   authenticationTransaction, transactions, rbac, rba>>

\* the discovery request of the call resolved: the document is cached
FetchResolves(c) ==
    /\ getConfigCalls[c].pc = "fetching"
    /\ config' = TRUE
    /\ getConfigCalls' = [getConfigCalls EXCEPT ![c].pc = "returned"]
    /\ UNCHANGED <<extraVars, accessTokens, ledgerVars, oidcVars,
                   authenticationTransaction, transactions, rbac, rba, configFetches>>

\* the discovery request of the call failed: getConfig rejects
FetchRejects(c) ==
    /\ getConfigCalls[c].pc = "fetching"
    /\ getConfigCalls' = [getConfigCalls EXCEPT ![c].pc = "thrown"]
    /\ configFetches' = [configFetches EXCEPT !.failed = @ + 1]
    /\ UNCHANGED <<extraVars, accessTokens, config, ledgerVars, oidcVars,
                   authenticationTransaction, transactions, rbac, rba>>

\* the operation goes on with the outcome of its call
GetConfigSettled(c) ==
    /\ getConfigCalls[c].pc \in {"returned", "thrown"}
    /\ getConfigCalls' = [getConfigCalls EXCEPT ![c] = NoGetConfigCall]
    /\ UNCHANGED <<extraVars, accessTokens, config, ledgerVars, oidcVars,
                   authenticationTransaction, transactions, rbac, rba, configFetches>>

ConfigNext ==
    \E c \in Callers :
        \/ GetConfig(c)
        \/ FetchResolves(c)
        \/ FetchRejects(c)
        \/ GetConfigSettled(c)

ConfigSpec == Init /\ [][ConfigNext]_vars

----------------------------------------------------------------------------
(* Every way to authenticate: hosted login, redirect callback, RBA *)

\* oidc.login with the defaults, as a redirect and as a popup login
HostedLoginOptions ==
    [ scope : {None}, audience : {None}, useRefreshToken : {FALSE}, popup : BOOLEAN,
      acrValues : {None}, maxAge : {None} ]

MaxFlows == 2    \* logins and challenges begun in one behaviour

\* another login or challenge may begin
FlowsLeft ==
    /\ rbac = "idle"
    /\ Len(transactions) + (rnd \div RandomStringsPerUrl) < MaxFlows

AuthNext ==
    \/ (FlowsLeft /\ RequestChallenge)
    \/ InitConfigOk
    \/ InitConfigFail
    \/ RequestAuthChallengeOk
    \/ RequestAuthChallengeFail
    \/ SubmitChallenge
    \/ SubmitAuthChallengeOk
    \/ SubmitAuthChallengeFail
    \/ Poll
    \/ PollForAuthCompletionOk
    \/ PollForAuthCompletionFail
    \/ Cancel
    \/ CancelAuthChallengeDone
    \/ RbaResume
    \/ (FlowsLeft /\ LoginWith(HostedLoginOptions))
    \/ LoginConfigOk
    \/ LoginConfigFail
    \/ PopupResponds
    \/ PopupFails
    \/ (rbac = "idle" /\ HandleRedirect)
    \/ ExchangeConfigOk
    \/ ExchangeConfigFail
    \/ ExchangeOk
    \/ ExchangeFail
    \/ OidcResume
    \/ Navigate

AuthSpec == Init /\ [][AuthNext]_vars

----------------------------------------------------------------------------
(* Vocabulary of the properties *)

Elems(seq) == {seq[i] : i \in 1..Len(seq)}

ScopeSet(scope) == Elems(Split(scope))

InFlight == pc # "idle"

HasSelected == InFlight /\ call.requestedToken # <<>>

Selected == call.requestedToken[1]

CallSeconds == call.now \div 1000

\* the record has the requested audience and every requested scope
MatchesScopeAndAudience(t) ==
    /\ t.audience = call.audience
    /\ ScopeSet(call.scope) \subseteq ScopeSet(t.scope)

\* ... and, when acrValues is non-empty, an acr among them
PassesFilter(t) ==
    /\ MatchesScopeAndAudience(t)
    /\ call.acrValues # <<>> => t.acr \in Elems(call.acrValues)

ScenarioC ==
    /\ InFlight
    /\ Len(call.purged) = 2
    /\ call.purged[1].scope = ScopeA /\ call.purged[1].audience = "X"
    /\ call.purged[2].scope = ScopeABC /\ call.purged[2].audience = "X"
    /\ call.scope = ScopeAB /\ call.audience = "X" /\ call.acrValues = <<>>

----------------------------------------------------------------------------
\* C1 (as stated): the selected record has the fewest scopes among all stored
\* records with the requested audience and every requested scope.
C1_Original ==
    HasSelected =>
        \A t \in Elems(call.purged) :
            MatchesScopeAndAudience(t) =>
                Cardinality(ScopeSet(Selected.scope)) <= Cardinality(ScopeSet(t.scope))

\* C1 (amended): the selected record has the fewest scopes among all stored
\* records that pass the whole filter: requested audience, every requested
\* scope and, when acrValues is non-empty, an acr among acrValues.
C1_FewestScopes ==
    HasSelected =>
        \A t \in Elems(call.purged) :
            PassesFilter(t) =>
                Cardinality(ScopeSet(Selected.scope)) <= Cardinality(ScopeSet(t.scope))

C1_Witness ==
    /\ HasSelected
    /\ \E t \in Elems(call.purged) :
          /\ PassesFilter(t)
          /\ Cardinality(ScopeSet(Selected.scope)) < Cardinality(ScopeSet(t.scope))

\* C2: the record getAccessToken returns or refreshes is a stored record that
\* passes the filter (audience equal, every requested scope, acr among a
\* non-empty acrValues); a token returned without refresh or login is that
\* record's; in scenario C the second record is selected.
C2_SelectedPassesFilter ==
    /\ HasSelected =>
          /\ Selected \in Elems(call.purged)
          /\ Selected.audience = call.audience
          /\ \A sc \in ScopeSet(call.scope) : sc \in ScopeSet(Selected.scope)
          /\ Len(call.acrValues) > 0 =>
                (Selected.acr # Undefined /\ Selected.acr \in Elems(call.acrValues))
    /\ (pc = "done" /\ call.result.kind = "return" /\ call.loginCalls = <<>>) =>
          /\ HasSelected
          /\ call.grant = "none" => call.result.value = Selected.accessToken
    /\ call.grant # "none" => HasSelected
    /\ ScenarioC => (HasSelected /\ Selected = call.purged[2])

C2_Witness ==
    /\ ScenarioC
    /\ pc = "done"
    /\ call.result.kind = "return"
    /\ call.result.value = call.purged[2].accessToken

\* C3 (as stated): a stored record past (expiresAt - 15 s) without a refresh
\* token is removed by the purge at the start of getAccessToken and is never
\* the value returned.
C3_Claim ==
    InFlight =>
        \A t \in Elems(call.before) :
            (call.now > (t.expiresAt - 15) * 1000 /\ t.refreshToken = 0) =>
                /\ t \notin Elems(call.purged)
                /\ ~(call.result.kind = "return" /\ call.result.value = t.accessToken)

\* C4 (as stated): the purge keeps every expired record that holds a refresh
\* token and whose maxAgeExpiry, if any, has not passed, and keeps every
\* unexpired record.
C4_Original ==
    InFlight =>
        \A t \in Elems(call.before) :
            LET expired == CallSeconds > t.expiresAt - 15
                maxAgePassed == t.maxAgeExpiry # 0 /\ CallSeconds > t.maxAgeExpiry
            IN ((expired /\ t.refreshToken # 0 /\ ~maxAgePassed) \/ ~expired) =>
                   t \in Elems(call.purged)

\* C4 (amended): the purge keeps, unchanged, every record whose maxAgeExpiry, if
\* any, less the 15 s buffer has not passed and which either holds a refresh
\* token or whose expiresAt less the 15 s buffer has not passed; it adds nothing.
C4_PurgeRetains ==
    InFlight =>
        /\ \A t \in Elems(call.before) :
              ( /\ t.maxAgeExpiry = 0 \/ CallSeconds <= t.maxAgeExpiry - 15
                /\ t.refreshToken # 0 \/ CallSeconds <= t.expiresAt - 15 ) =>
                    t \in Elems(call.purged)
        /\ Elems(call.purged) \subseteq Elems(call.before)

C4_Witness ==
    /\ InFlight
    /\ Len(call.purged) < Len(call.before)
    /\ \E t \in Elems(call.purged) :
          CallSeconds > t.expiresAt - 15 /\ t.refreshToken # 0

\* C5: when the selected record is more than 15 s from its expiry, getAccessToken
\* returns its accessToken at once, sends no token request, starts no login and
\* leaves storage as the purge left it, the selected record included.
C5_UnexpiredReturned ==
    (HasSelected /\ call.now < (Selected.expiresAt - 15) * 1000) =>
        /\ pc = "done"
        /\ call.result = Returned(Selected.accessToken)
        /\ call.refreshRequests = 0
        /\ call.grant = "none"
        /\ call.loginCalls = <<>>
        /\ accessTokens = call.purged
        /\ Selected \in Elems(accessTokens)

C5_Witness ==
    /\ HasSelected
    /\ call.now < (Selected.expiresAt - 15) * 1000
    /\ Len(accessTokens) = 2
    /\ call.result.kind = "return"

\* C6: after a successful refresh grant the stale record is gone, exactly one
\* new record holds the response's access token, refresh token and expiry with
\* the stale record's scope, audience and acr, the new access token is returned,
\* every other record is kept and the number of records is unchanged.
C6_RefreshReplaces ==
    (pc = "done" /\ call.grant = "ok") =>
        LET tokenResponse == call.response[1]
            new == { t \in Elems(accessTokens) : t.accessToken = tokenResponse.access_token }
        IN /\ Selected \notin Elems(accessTokens)
           /\ tokenResponse.access_token # Selected.accessToken
           /\ Cardinality(new) = 1
           /\ \A t \in new :
                 /\ t.refreshToken = tokenResponse.refresh_token
                 /\ t.refreshToken # Selected.refreshToken
                 /\ t.expiresAt = tokenResponse.expires_in + (clock \div 1000)
                 /\ t.scope = Selected.scope
                 /\ t.audience = Selected.audience
                 /\ t.acr = Selected.acr
           /\ call.result = Returned(tokenResponse.access_token)
           /\ Elems(accessTokens) = (Elems(call.purged) \ {Selected}) \cup new
           /\ Len(accessTokens) = Len(call.purged)

C6_Witness ==
    /\ pc = "done"
    /\ call.grant = "ok"
    /\ Len(accessTokens) = 2
    /\ Selected.acr = "p"
    /\ call.result.kind = "return"

\* C7: one invocation of getAccessToken sends at most one refresh_token grant.
C7_AtMostOneRefresh ==
    call.refreshRequests <= 1

C7_Witness ==
    /\ call.refreshRequests = 1
    /\ Cardinality({ t \in Elems(call.purged) :
                        /\ PassesFilter(t)
                        /\ t.refreshToken # 0
                        /\ call.now >= (t.expiresAt - 15) * 1000 }) >= 2

\* C8: when the refresh grant fails, getAccessToken rejects with that error: no
\* token is returned and no login is started, fallback options or not.
C8_RefreshFailurePropagates ==
    call.grant = "failed" =>
        /\ pc = "done"
        /\ call.result = Thrown(ErrToken)
        /\ call.loginCalls = <<>>
        /\ call.refreshRequests = 1

C8_Witness ==
    /\ call.grant = "failed"
    /\ call.fallback # <<>>
    /\ call.result.kind = "throw"
    /\ \E t \in Elems(accessTokens) :
          t # Selected /\ PassesFilter(t) /\ clock < (t.expiresAt - 15) * 1000

\* C9 (as stated): after a failed refresh grant the stale record that was
\* selected for refresh is no longer in storage.
C9_Claim ==
    (pc = "done" /\ call.grant = "failed") => Selected \notin Elems(accessTokens)

----------------------------------------------------------------------------
(* Vocabulary of the OIDC properties *)

\* a login has generated its authorization URL
Generated == op.kind = "login" /\ op.generated # None

LoginOpts == op.options[1]

GeneratedUrl == op.generated[1].url.query[1]

\* the index of the first occurrence of x in seq
FirstIndex(seq, x) ==
    CHOOSE i \in 1..Len(seq) : seq[i] = x /\ \A j \in 1..(i - 1) : seq[j] # x

\* the random string a base64url-encoded random string encodes
RandomOf(encoded) == encoded.base64url.random

\* C12: the scope of the authorization URL, which is also the scope saved as
\* token params, is the requested scope tokens in their order, then openid,
\* then offline_access iff a refresh token is requested, every duplicate
\* removed keeping the first occurrence, joined by single spaces: "profile
\* email" with refresh gives "profile email openid offline_access", "openid
\* profile profile email" with refresh gives "openid profile email
\* offline_access", the empty scope gives "openid".
C12_UsedScope ==
    Generated =>
        LET g == op.generated[1]
            requested == SelectSeq(Split(OrElse(LoginOpts.scope, globalScope)),
                                   LAMBDA t : t # <<>>)
            wanted == requested \o <<Openid>> \o
                      (IF LoginOpts.useRefreshToken THEN <<OfflineAccess>> ELSE <<>>)
            used == Split(g.usedScope)
        IN /\ GeneratedUrl.scope = g.usedScope
           /\ op.validated = None =>
                 (savedTokenParams # None /\ savedTokenParams[1].scope = g.usedScope)
           /\ Elems(used) = Elems(wanted)
           /\ <<>> \notin Elems(used)
           /\ \A i, j \in 1..Len(used) : i # j => used[i] # used[j]
           /\ \A i, j \in 1..Len(used) :
                 i < j => FirstIndex(wanted, used[i]) < FirstIndex(wanted, used[j])
           /\ (LoginOpts.scope = Some(ScopeProfileEmail) /\ LoginOpts.useRefreshToken) =>
                 g.usedScope = Profile \o Space \o Email \o Space \o Openid \o Space \o OfflineAccess
           /\ (LoginOpts.scope = Some(ScopeOpenidProfileProfileEmail) /\ LoginOpts.useRefreshToken) =>
                 g.usedScope = Openid \o Space \o Profile \o Space \o Email \o Space \o OfflineAccess
           /\ (LoginOpts.scope = Some(<<>>) /\ ~LoginOpts.useRefreshToken) =>
                 g.usedScope = Openid

C12_Witness ==
    /\ Generated
    /\ LoginOpts.scope = Some(ScopeOpenidProfileProfileEmail)
    /\ LoginOpts.useRefreshToken
    /\ savedTokenParams # None
    /\ savedTokenParams[1].scope =
          Openid \o Space \o Profile \o Space \o Email \o Space \o OfflineAccess

\* C13: the authorization URL carries max_age iff maxAge is given and is >= 0
\* (then it is maxAge written as a decimal number), and the token params saved
\* contain maxAge in exactly the same cases, with that value.
C13_MaxAge ==
    Generated =>
        LET given == LoginOpts.maxAge # None /\ LoginOpts.maxAge[1] >= 0
            url == GeneratedUrl
            saved == op.generated[1].tokenParams
        IN /\ url.max_age # None <=> given
           /\ saved.maxAge # None <=> given
           /\ given => saved.maxAge = LoginOpts.maxAge
           /\ LoginOpts.maxAge = Some(0) => url.max_age = Some(<<"0">>)
           /\ LoginOpts.maxAge = Some(300) => url.max_age = Some(<<"3", "0", "0">>)
           /\ op.validated = None => savedTokenParams = Some(saved)

C13_Witness ==
    /\ Generated
    /\ LoginOpts.maxAge = Some(0)
    /\ GeneratedUrl.max_age = Some(<<"0">>)
    /\ savedTokenParams # None
    /\ savedTokenParams[1].maxAge = Some(0)

StateMismatch ==
    /\ op.authorizeResponse # None
    /\ op.expectedState # None
    /\ op.authorizeResponse[1].state # op.expectedState

\* no token request was sent and no token record was written by the operation
NothingExchanged ==
    /\ op.tokenRequests = <<>>
    /\ accessTokens = op.before.accessTokens
    /\ idToken = op.before.idToken

FoundCallback == op.kind = "handleRedirect" /\ op.authorizeResponse # None

\* C16: once handleRedirect has found a callback, and so whenever its token
\* request is in flight or has completed, the visible URL has no query and so
\* no authorization code; it still has none when the call is over, and a
\* handleRedirect called with a visible URL without query returns null, sends
\* no token request and leaves the storage alone.
C16_UrlStripped ==
    [][ /\ (FoundCallback => location = sanitizeUri(op.href))'
        /\ (FoundCallback /\ opc = "done" /\ opc' = "idle") => location'.query = None
        /\ (opc = "idle" /\ opc' # "idle" /\ op'.kind = "handleRedirect"
                /\ location.query = None) =>
              /\ opc' = "done"
              /\ op'.result = Returned(0)
              /\ op'.tokenRequests = <<>>
              /\ UNCHANGED <<accessTokens, idToken, savedTokenParams, savedClientParams, location>>
      ]_vars

C16_Witness ==
    /\ FoundCallback
    /\ opc = "exchange"
    /\ Len(op.tokenRequests) = 1
    /\ op.href.query # None
    /\ op.href.query[1].code = Some("code")
    /\ location.query = None

\* handleRedirect resolved after exchanging the code of a callback
RedirectCompleted ==
    /\ FoundCallback
    /\ opc = "done"
    /\ op.result = Returned(0)

\* C17 (as stated): after handleRedirect completed successfully the storage
\* holds the new id token and the new access-token record, and the client
\* params (nonce, state, codeVerifier, redirectUri) of the redirect login are
\* deleted.
C17_Claim ==
    RedirectCompleted =>
        /\ idToken = op.validated[1].access_token
        /\ \E t \in Elems(accessTokens) : t.accessToken = op.validated[1].access_token
        /\ savedClientParams = None

\* C18 (as stated): logout without a stored id token changes nothing: the
\* stored records stay, the discovery document is not fetched, no end-session
\* URL is generated and the location does not change.
C18_Claim ==
    (op.kind = "logout" /\ op.before.idToken = 0) =>
        /\ Storage = op.before
        /\ op.configFetches = 0
        /\ op.logoutUrls = <<>>
        /\ location = op.href

\* C19: logout with a stored id token removes the id token, every access
\* token, the token params and the client params before it awaits anything;
\* when it resolves, the browser is at the end-session URL, which carries the
\* client_id and carries post_logout_redirect_uri iff a redirectUri was given
\* (then that URI); isAuthenticated is false and no request of getAccessToken
\* finds a record.
C19_LogoutClears ==
    (op.kind = "logout" /\ op.before.idToken # 0) =>
        /\ Storage = EmptyStorage
        /\ idToken = 0
        /\ \A scope \in RequestScopes, audience \in RequestAudiences,
              acrValues \in RequestAcrValues :
                FilterTokens(getAccessTokens(accessTokens), scope, audience, acrValues) = <<>>
        /\ (opc = "done" /\ op.result.kind = "return") =>
              /\ location.origin = "endsession"
              /\ location.query[1].client_id = clientId
              /\ location.query[1].post_logout_redirect_uri = op.options[1].redirectUri
              /\ op.logoutUrls = <<location>>

C19_Witness ==
    /\ op.kind = "logout"
    /\ opc = "done"
    /\ op.before.idToken # 0
    /\ op.before.accessTokens # <<>>
    /\ op.before.clientParams # None
    /\ op.options[1].redirectUri # None
    /\ location.origin = "endsession"
    /\ location.query[1].post_logout_redirect_uri # None

\* a popup login with a provider whose response_modes_supported lacks web_message
PopupUnsupported ==
    /\ op.kind = "login"
    /\ LoginOpts.popup
    /\ "web_message" \notin provider.response_modes_supported

\* C20: a popup login whose discovery document lacks web_message generates no
\* authorization URL, produces no random string, saves no token params and no
\* client params, sends no token request and never resolves; once the
\* discovery document is there it throws 'Attempted to use popup but
\* web_message is not supported by OpenID provider.' with the pre-opened popup
\* closed.
C20_PopupFailsFast ==
    PopupUnsupported =>
        /\ op.generated = None
        /\ rnd = op.drawnBefore
        /\ Storage = op.before
        /\ location = op.href
        /\ op.tokenRequests = <<>>
        /\ opc \in {"loginConfig", "done"}
        /\ opc = "done" => op.result.kind = "throw"
        /\ (opc = "done" /\ config) =>
              /\ op.result.error =
                    "Attempted to use popup but web_message is not supported by OpenID provider."
              /\ op.popupWindow = "closed"

C20_Witness ==
    /\ PopupUnsupported
    /\ opc = "done"
    /\ op.popupWindow = "closed"
    /\ op.result = Thrown(ErrPopupUnsupported)
    /\ op.before.tokenParams # None

\* C21 (as stated): over any sequence of getConfig calls of one client
\* instance, overlapping ones included, the discovery document is fetched
\* once: a discovery request is sent only if every earlier one has failed.
C21_Claim == configFetches.sent - configFetches.failed <= 1

\* the operation in flight is a submitChallenge, a poll or a cancel
ActsOnTransaction == rba.kind \in {"submitChallenge", "poll", "cancel"}

\* C22: the context refers to at most one transaction, and it is the most
\* recently created one: requestChallenge replaces a live transaction, and
\* every request of a later submitChallenge, poll or cancel is sent for the
\* most recently created transaction.
C22_MostRecentTransaction ==
    /\ authenticationTransaction # None =>
          /\ Len(authenticationTransaction) = 1
          /\ authenticationTransaction[1] = Len(transactions)
    /\ \A i \in 1..Len(rba.requests) : rba.requests[i].tx = Len(transactions)
    /\ (ActsOnTransaction /\ rba.tx # None) => rba.tx = Some(Len(transactions))

C22_Witness ==
    /\ rba.kind = "submitChallenge"
    /\ rbac = "submitAuthChallenge"
    /\ Len(transactions) = 2
    /\ transactions[1].state = "AwaitingPoll"
    /\ rba.requests = <<RbaRequest("submit", 2)>>

\* the response of the operation in flight says the authentication completed
CompletedNow ==
    /\ rbac = "done"
    /\ rba.response # None
    /\ rba.response[1].authenticationCompleted

\* the stored records whose access token is the one of transaction object i
RecordsOf(i) ==
    { k \in 1..Len(accessTokens) :
        accessTokens[k].accessToken = transactions[i].details[1].accessToken }

\* C23: the response that completes a transaction makes the call save exactly
\* one access-token record and the id token and
\* discard the transaction; a completed transaction is never live again, so
\* the storage holds exactly one record per completed transaction, whether it
\* was completed by a submission (OTP) or by a status check (TOKENPUSH).
C23_TokensWrittenOnce ==
    /\ CompletedNow =>
          LET details == transactions[rba.tx[1]].details[1]
          IN /\ rba.result = Returned(rba.response[1])
             /\ rba.objectBefore[1].state # "Completed"
             /\ Len(accessTokens) = Len(rba.before.accessTokens) + 1
             /\ SubSeq(accessTokens, 1, Len(rba.before.accessTokens)) = rba.before.accessTokens
             /\ accessTokens[Len(accessTokens)].accessToken = details.accessToken
             /\ idToken = details.idToken
             /\ idToken # rba.before.idToken
             /\ authenticationTransaction = None
    /\ \A i \in 1..Len(transactions) :
          IF transactions[i].state = "Completed"
          THEN /\ authenticationTransaction # Some(i)
               /\ Cardinality(RecordsOf(i)) = 1
          ELSE transactions[i].details = None
    /\ Len(accessTokens) =
          Cardinality({i \in 1..Len(transactions) : transactions[i].state = "Completed"})

C23_Witness ==
    /\ CompletedNow
    /\ rba.kind = "poll"
    /\ Len(transactions) = 2
    /\ transactions[1].method = "OTP"
    /\ transactions[1].state = "Completed"
    /\ transactions[2].method = "TOKENPUSH"
    /\ Len(accessTokens) = 2

\* C24: submitChallenge, poll and cancel called while the context holds no
\* transaction throw 'No authentication transaction in progress!', send no
\* request and change no stored record.
C24_NoTransaction ==
    (ActsOnTransaction /\ rba.liveBefore = None) =>
        /\ rbac = "done"
        /\ rba.result = Thrown("No authentication transaction in progress!")
        /\ rba.requests = <<>>
        /\ Storage = rba.before
        /\ authenticationTransaction = None

C24_Witness ==
    /\ rba.kind = "cancel"
    /\ rba.liveBefore = None
    /\ rbac = "done"
    /\ Len(transactions) = 1
    /\ transactions[1].state = "Completed"
    /\ rba.before.idToken # 0

\* C25: while cancel runs and when it is over, the stored id token, the
\* access-token records, the token params and the client params are those
\* cancel found.
C25_CancelKeepsStorage ==
    rba.kind = "cancel" => Storage = rba.before

C25_Witness ==
    /\ rba.kind = "cancel"
    /\ rbac = "done"
    /\ rba.result = Returned(0)
    /\ rba.objectBefore[1].state = "AwaitingPoll"
    /\ rba.before.idToken # 0
    /\ rba.before.accessTokens # <<>>
    /\ rba.before.clientParams # None

\* C26 (as stated): once cancel has returned the context holds no transaction,
\* and a submitChallenge, poll or cancel that finds a cancelled transaction
\* fails with the no-transaction error.
C26_Claim ==
    /\ (rba.kind = "cancel" /\ rbac = "done" /\ rba.result.kind = "return") =>
          authenticationTransaction = None
    /\ (ActsOnTransaction /\ rba.objectBefore # None /\ rbac = "done") =>
          (rba.objectBefore[1].state = "Cancelled" => rba.result = Thrown(ErrNoTransaction))

\* poll was called on a live transaction that awaits a submission
PollWhileAwaitingSubmission ==
    /\ rba.kind = "poll"
    /\ rba.objectBefore # None
    /\ rba.objectBefore[1].state = "AwaitingSubmission"

SubmissionFailed ==
    /\ rba.kind = "submitChallenge"
    /\ rbac = "done"
    /\ rba.result = Thrown(ErrRba)

\* C29: when the submission request fails, the context holds the same
\* transaction in the state it had, no token is written, and the guard of a
\* further submitChallenge passes.
C29_FailedSubmissionKeepsTransaction ==
    SubmissionFailed =>
        /\ authenticationTransaction = rba.liveBefore
        /\ LiveObject = rba.objectBefore
        /\ Storage = rba.before
        /\ GuardTransaction(authenticationTransaction) = None

C29_Witness ==
    /\ SubmissionFailed
    /\ rba.objectBefore[1].state = "AwaitingSubmission"
    /\ Len(rba.requests) = 1

\* C30: the storage holds one id token at most, and it changes exactly when an
\* authentication succeeds: the new id token replaces the old one and one
\* access-token record is appended to those stored.
C30_IdTokenOverwritten ==
    [][ /\ (idToken' # idToken) <=> (accessTokens' # accessTokens)
        /\ (idToken' # idToken) =>
              /\ idToken' # 0
              /\ Len(accessTokens') = Len(accessTokens) + 1
              /\ SubSeq(accessTokens', 1, Len(accessTokens)) = accessTokens
              /\ accessTokens'[Len(accessTokens')].accessToken = idToken'
              /\ \A k \in 1..Len(accessTokens) : accessTokens[k].accessToken # idToken'
      ]_vars

C30_Witness ==
    /\ CompletedNow
    /\ rba.before.idToken # 0
    /\ rba.before.clientParams # None
    /\ Len(accessTokens) = 2
    /\ idToken = accessTokens[2].accessToken
    /\ idToken # rba.before.idToken

----------------------------------------------------------------------------
(* The IStore backends on their own *)

coreVars ==
    <<accessTokens, clock, config, pc, call, idToken, savedTokenParams, savedClientParams,
      location, rnd, provider, opc, op, rbaVars>>

\* an operation on a store starts: what the backends hold
StoreBegin(kind, backend, key) ==
    [NoStoreOp EXCEPT !.kind = kind, !.backend = backend, !.key = key, !.before = Some(stores)]

StoreSave ==
    \E backend \in Backends, key \in StoreKeys, value \in StoreValues :
        /\ stores' = [stores EXCEPT ![backend] = save(@, key, value)]
        /\ storeOp' = [StoreBegin("save", backend, key) EXCEPT !.value = value]
        /\ UNCHANGED <<coreVars, auth, parked>>

StoreGet ==
    \E backend \in Backends, key \in StoreKeys :
        /\ storeOp' = [ StoreBegin("get", backend, key) EXCEPT
                          !.result = Some(get(stores[backend], key)) ]
        /\ UNCHANGED <<coreVars, stores, auth, parked>>

StoreDelete ==
    \E backend \in Backends, key \in StoreKeys :
        /\ stores' = [stores EXCEPT ![backend] = delete(@, key)]
        /\ storeOp' = StoreBegin("delete", backend, key)
        /\ UNCHANGED <<coreVars, auth, parked>>

StoreNext == StoreSave \/ StoreGet \/ StoreDelete

StoreSpec == Init /\ [][StoreNext]_vars

----------------------------------------------------------------------------
(* The access-token list of the StorageManager on its own *)

MaxStored == 3      \* most records the list holds

\* getAccessToken({scope, audience}) of the tests: records that differ in scope
\* or audience only
TestAccessTokens ==
    { [ accessToken |-> 1, expiresAt |-> 3600, scope |-> scope, refreshToken |-> 0,
        audience |-> audience, maxAgeExpiry |-> 0, acr |-> Undefined ] :
          scope \in {ScopeA, ScopeAB}, audience \in {"X", "Y"} }

ManagerBegin(kind) ==
    [NoStoreOp EXCEPT !.kind = kind, !.before = Some(accessTokens)]

managerVars ==
    <<clock, config, pc, call, idToken, savedTokenParams, savedClientParams,
      location, rnd, provider, opc, op, rbaVars, stores, auth, parked>>

SaveAccessToken ==
    /\ Len(accessTokens) < MaxStored
    /\ \E token \in TestAccessTokens :
          /\ accessTokens' = saveAccessToken(accessTokens, token)
          /\ storeOp' = [ManagerBegin("saveAccessToken") EXCEPT !.record = Some(token)]
    /\ UNCHANGED managerVars

GetAccessTokens ==
    /\ storeOp' = [ ManagerBegin("getAccessTokens") EXCEPT
                      !.result = Some(getAccessTokens(accessTokens)) ]
    /\ UNCHANGED <<accessTokens, managerVars>>

RemoveAccessToken ==
    /\ \E token \in TestAccessTokens :
          /\ accessTokens' = removeAccessToken(accessTokens, token)
          /\ storeOp' = [ManagerBegin("removeAccessToken") EXCEPT !.record = Some(token)]
    /\ UNCHANGED managerVars

ManagerNext == SaveAccessToken \/ GetAccessTokens \/ RemoveAccessToken

ManagerSpec == Init /\ [][ManagerNext]_vars

----------------------------------------------------------------------------
(* RbaClient.submitChallenge with the answers of a KBA challenge *)

MaxQuestions == 2   \* most questions a KBA challenge asks

ErrKbaAnswers == "the answers do not match the questions"

KbaAnswerSet == {"Fluffy", "Lincoln"}

\* kbaChallengeAnswers of a submission: up to one answer more than questions
KbaAnswers ==
    UNION { [1..n -> KbaAnswerSet] : n \in 0..(MaxQuestions + 1) }

\* the transaction object with the questions of its KBA challenge
WithQuestions(transaction, n) ==
    [ f \in DOMAIN transaction \cup {"questions"} |->
        IF f = "questions" THEN n ELSE transaction[f] ]

\* mutant: the answers beyond the first are dropped
SubmittedOptionsTruncated(options) ==
    [options EXCEPT !.kbaChallengeAnswers = SubSeq(@, 1, IF Len(@) > 1 THEN 1 ELSE Len(@))]

\* { ...options }: the transaction gets a copy of the caller's options
SubmittedOptions(options) == [f \in DOMAIN options |-> options[f]]

\* a submission of the transaction object id to the server
KbaSubmission(id, options) ==
    [kind |-> "submit", tx |-> id, kbaChallengeAnswers |-> options.kbaChallengeAnswers]

\* rba.requestChallenge({preferredAuthenticationMethod: "KBA", strict: true}) up
\* to its first await
RequestKbaChallenge ==
    /\ RbaCanStart
    /\ Len(transactions) < MaxTransactions
    /\ rba' = [ RbaBegin("requestChallenge") EXCEPT
                  !.options = Some([ method |-> "KBA",
                                     tokenOptions |-> [audience |-> None, scope |-> None,
                                                       useRefreshToken |-> None] ]) ]
    /\ rbac' = "initConfig"
    /\ UNCHANGED <<extraVars, accessTokens, config, ledgerVars, idToken, hostedVars,
                   authenticationTransaction, transactions, configVars>>

\* the server answered with the questions of the challenge
RequestKbaChallengeOk ==
    /\ rbac = "requestAuthChallenge"
    /\ transactions[rba.tx[1]].method = "KBA"
    /\ \E n \in 1..MaxQuestions :
          LET id == rba.tx[1]
              response == ChallengeResponse("KBA")
          IN /\ transactions' =
                   [ transactions EXCEPT
                       ![id] = WithQuestions(Responded(@, response, 0, None, clock), n) ]
             /\ rba' = [rba EXCEPT !.response = Some(response), !.result = Returned(response)]
    /\ rbac' = "done"
    /\ UNCHANGED <<extraVars, accessTokens, config, ledgerVars, idToken, hostedVars,
                   authenticationTransaction, configVars>>

\* rba.submitChallenge({kbaChallengeAnswers}) up to its await: without
\* transaction it throws; the transaction rejects answers that are not one per
\* question, else the submission is sent with the answers it was given
SubmitKbaChallenge ==
    /\ RbaCanStart
    /\ \E answers \in KbaAnswers :
          LET options == [kbaChallengeAnswers |-> answers]
              begun == [RbaBegin("submitChallenge") EXCEPT !.options = Some(options)]
              guard == GuardTransaction(authenticationTransaction)
              submitted == SubmittedOptions(options)
          IN IF guard # None
             THEN /\ rba' = [begun EXCEPT !.result = Thrown(guard[1])]
                  /\ rbac' = "done"
             ELSE IF /\ "questions" \in DOMAIN LiveObject[1]
                     /\ Len(submitted.kbaChallengeAnswers) # LiveObject[1].questions
             THEN /\ rba' = [begun EXCEPT !.result = Thrown(ErrKbaAnswers)]
                  /\ rbac' = "done"
             ELSE /\ rba' = [ begun EXCEPT
                                !.requests = <<KbaSubmission(authenticationTransaction[1],
                                                             submitted)>> ]
                  /\ rbac' = "submitAuthChallenge"
    /\ UNCHANGED <<extraVars, accessTokens, config, ledgerVars, idToken, hostedVars,
                   authenticationTransaction, transactions, configVars>>

KbaNext ==
    \/ RequestKbaChallenge
    \/ InitConfigOk
    \/ InitConfigFail
    \/ RequestKbaChallengeOk
    \/ RequestAuthChallengeFail
    \/ SubmitKbaChallenge
    \/ SubmitAuthChallengeOk
    \/ SubmitAuthChallengeFail
    \/ RbaResume

KbaSpec == Init /\ [][KbaNext]_vars

----------------------------------------------------------------------------
(* AuthClient.authenticateSoftToken *)

UserId == "user@example.com"

\* {userId, mutualChallenge = false, push = false}: an option left out is false
SoftTokenOptionsSet ==
    [userId : {UserId}, mutualChallenge : BOOLEAN, push : BOOLEAN]

\* the options of the requestChallenge call of authenticateSoftToken
SoftTokenRequest(options) ==
    IF options.push /\ ~options.mutualChallenge
    THEN [ userId |-> options.userId, strict |-> TRUE,
           preferredAuthenticationMethod |-> "TOKENPUSH", tokenPushOptions |-> None ]
    ELSE IF options.push /\ options.mutualChallenge
    THEN [ userId |-> options.userId, strict |-> TRUE,
           preferredAuthenticationMethod |-> "TOKENPUSH",
           tokenPushOptions |-> Some([mutualChallengeEnabled |-> TRUE]) ]
    ELSE [ userId |-> options.userId, strict |-> TRUE,
           preferredAuthenticationMethod |-> "TOKEN", tokenPushOptions |-> None ]

\* mutant: every push is polled for
SoftTokenPollsEveryPush(options) == options.push

\* if (push && !mutualChallenge): the helper awaits the challenge, then polls
SoftTokenPolls(options) == options.push /\ ~options.mutualChallenge

\* this.rbaClient.requestChallenge(request) up to its first await
RequestChallengeCall(request) ==
    [ rba |-> [ RbaBegin("requestChallenge") EXCEPT
                  !.options = Some([ method |-> request.preferredAuthenticationMethod,
                                     tokenOptions |-> [audience |-> None, scope |-> None,
                                                       useRefreshToken |-> None],
                                     request |-> request ]) ],
      rbac |-> "initConfig" ]

\* this.rbaClient.poll() up to its await
PollCall ==
    LET guard == GuardTransaction(authenticationTransaction)
    IN IF guard # None
       THEN [rba |-> [RbaBegin("poll") EXCEPT !.result = Thrown(guard[1])], rbac |-> "done"]
       ELSE IF ~AwaitsPoll(LiveObject[1])
       THEN [ rba |-> [RbaBegin("poll") EXCEPT !.result = Thrown(ErrNotAwaitingPoll)],
              rbac |-> "done" ]
       ELSE [ rba |-> [ RbaBegin("poll") EXCEPT
                          !.requests = <<RbaRequest("poll", authenticationTransaction[1])>> ],
              rbac |-> "pollForAuthCompletion" ]

\* auth.authenticateSoftToken up to its first await: the challenge is requested
AuthenticateSoftToken ==
    /\ RbaCanStart
    /\ auth.pc = "idle"
    /\ Len(transactions) < MaxTransactions
    /\ \E options \in SoftTokenOptionsSet :
          LET request == SoftTokenRequest(options)
              called == RequestChallengeCall(request)
          IN /\ auth' = [ NoAuth EXCEPT
                            !.kind = "authenticateSoftToken",
                            !.options = Some(options),
                            !.calls = <<[call |-> "requestChallenge", options |-> Some(request)]>>,
                            !.pc = "requestChallenge" ]
             /\ rba' = called.rba
             /\ rbac' = called.rbac
    /\ UNCHANGED <<stores, storeOp, parked, accessTokens, config, ledgerVars, idToken,
                   hostedVars, authenticationTransaction, transactions, configVars>>

\* requestChallenge settled: a rejection propagates; a plain push is polled
\* for; else the challenge response is returned
SoftTokenRequested ==
    /\ auth.pc = "requestChallenge"
    /\ rbac = "done"
    /\ IF rba.result.kind = "throw" \/ ~SoftTokenPolls(auth.options[1])
       THEN /\ auth' = [auth EXCEPT !.pc = "done", !.result = rba.result]
            /\ UNCHANGED <<rba, rbac>>
       ELSE /\ auth' = [ auth EXCEPT
                           !.pc = "poll",
                           !.calls = Append(@, [call |-> "poll", options |-> None]) ]
            /\ rba' = PollCall.rba
            /\ rbac' = PollCall.rbac
    /\ UNCHANGED <<stores, storeOp, parked, accessTokens, config, ledgerVars, idToken,
                   hostedVars, authenticationTransaction, transactions, configVars>>

\* poll settled: the helper returns its result
SoftTokenPolled ==
    /\ auth.pc = "poll"
    /\ rbac = "done"
    /\ auth' = [auth EXCEPT !.pc = "done", !.result = rba.result]
    /\ UNCHANGED <<stores, storeOp, parked, accessTokens, config, ledgerVars, idToken,
                   hostedVars, rbaVars>>

\* the application took the result of the helper
AuthResume ==
    /\ auth.pc = "done"
    /\ auth' = NoAuth
    /\ rbac' = "idle"
    /\ rba' = NoRba
    /\ UNCHANGED <<stores, storeOp, parked, accessTokens, config, ledgerVars, idToken,
                   hostedVars, authenticationTransaction, transactions, configVars>>

SoftTokenNext ==
    \/ AuthenticateSoftToken
    \/ InitConfigOk
    \/ InitConfigFail
    \/ RequestAuthChallengeOk
    \/ RequestAuthChallengeFail
    \/ SoftTokenRequested
    \/ PollForAuthCompletionOk
    \/ PollForAuthCompletionFail
    \/ SoftTokenPolled
    \/ AuthResume

SoftTokenSpec == Init /\ [][SoftTokenNext]_vars

----------------------------------------------------------------------------
(* requestAndValidateTokens: the id token of the token response is validated *)

issuerUrl == "https://tenant.example.com"

acr_values_supported == {"p", "q"}

ForgedNonce == [base64url |-> [random |-> 0]]

ErrIdToken == "id token validation failed"

\* the nonce handed to requestAndValidateTokens: the one generated by this popup
\* login, or the one of the client params handleRedirect read
FlowNonce(o) ==
    IF o.kind = "login" THEN o.generated[1].nonce ELSE o.before.clientParams[1].nonce

\* the claims an id token can carry in a flow whose nonce is given
IdTokenClaims(nonce) ==
    [ iss : {issuerUrl, "https://other.example.com"},
      aud : {clientId, "other-client"},
      nonce : {nonce, ForgedNonce},
      acr : {Undefined, "p", "z"} ]

\* validateIdToken({clientId, idToken, issuer, nonce, acrValuesSupported}): TRUE
\* when it returns, FALSE when it throws
validateIdToken(claims, issuer, audience, nonce, acrValuesSupported) ==
    /\ claims.iss = issuer
    /\ claims.aud = audience
    /\ claims.nonce = nonce
    /\ claims.acr = Undefined \/ claims.acr \in acrValuesSupported

\* mutant: the response is parsed and saved before its id token is validated
ExchangeRespondsSavesFirst ==
    /\ opc = "exchange"
    /\ \E tokenResponse \in TokenResponses(FreshId), claims \in IdTokenClaims(FlowNonce(op)) :
          IF savedTokenParams = None
          THEN /\ op' = [op EXCEPT !.validated = Some(tokenResponse), !.id_token = Some(claims),
                                   !.result = Thrown(ErrNoTokenParams)]
               /\ UNCHANGED <<accessTokens, idToken, savedTokenParams>>
          ELSE /\ savedTokenParams' = None
               /\ idToken' = tokenResponse.access_token
               /\ accessTokens' =
                     saveAccessToken(accessTokens,
                         LoginAccessToken(tokenResponse,
                                          ReadTokenParams(savedTokenParams[1]), clock))
               /\ op' = [op EXCEPT !.validated = Some(tokenResponse), !.id_token = Some(claims),
                                   !.result = IF ~validateIdToken(claims, issuerUrl, clientId,
                                                                  FlowNonce(op),
                                                                  acr_values_supported)
                                              THEN Thrown(ErrIdToken)
                                              ELSE Returned(0)]
    /\ opc' = "done"
    /\ UNCHANGED <<extraVars, rbaVars, config, ledgerVars, savedClientParams, location, rnd,
                   provider>>

\* the token request resolved: validateIdToken throws, or
\* parseAndSaveTokenResponse removes the token params and saves the id token and
\* the access token (it throws when no token params are stored)
ExchangeResponds ==
    /\ opc = "exchange"
    /\ \E tokenResponse \in TokenResponses(FreshId), claims \in IdTokenClaims(FlowNonce(op)) :
          IF ~validateIdToken(claims, issuerUrl, clientId, FlowNonce(op),
                                 acr_values_supported)
             THEN /\ op' = [op EXCEPT !.validated = Some(tokenResponse), !.id_token = Some(claims),
                                      !.result = Thrown(ErrIdToken)]
                  /\ UNCHANGED <<accessTokens, idToken, savedTokenParams>>
             ELSE IF savedTokenParams = None
             THEN /\ op' = [op EXCEPT !.validated = Some(tokenResponse), !.id_token = Some(claims),
                                      !.result = Thrown(ErrNoTokenParams)]
                  /\ UNCHANGED <<accessTokens, idToken, savedTokenParams>>
             ELSE /\ savedTokenParams' = None
                  /\ idToken' = tokenResponse.access_token
                  /\ accessTokens' =
                        saveAccessToken(accessTokens,
                            LoginAccessToken(tokenResponse,
                                             ReadTokenParams(savedTokenParams[1]), clock))
                  /\ op' = [op EXCEPT !.validated = Some(tokenResponse), !.id_token = Some(claims),
                                      !.result = IF op.kind = "login"
                                                 THEN Returned(tokenResponse.access_token)
                                                 ELSE Returned(0)]
    /\ opc' = "done"
    /\ UNCHANGED <<extraVars, rbaVars, config, ledgerVars, savedClientParams, location, rnd,
                   provider>>

IdTokenNext ==
    \/ LoginWith(HostedLoginOptions)
    \/ LoginConfigOk
    \/ LoginConfigFail
    \/ PopupResponds
    \/ PopupFails
    \/ HandleRedirect
    \/ ExchangeConfigOk
    \/ ExchangeConfigFail
    \/ ExchangeResponds
    \/ ExchangeFail
    \/ OidcResume
    \/ Navigate

IdTokenSpec == Init /\ [][IdTokenNext]_vars

----------------------------------------------------------------------------
(* getAccessToken called again while a call is suspended at an await *)

\* the caller starts another call while the call in flight awaits getConfig or
\* the token endpoint: the suspended call is set aside with its locals
SuspendCall ==
    /\ parked = None
    /\ pc \in {"getConfig", "requestToken"}
    /\ parked' = Some([call |-> call, pc |-> pc])
    /\ call' = NoCall
    /\ pc' = "idle"
    /\ UNCHANGED <<stores, storeOp, auth, rbaVars, accessTokens, clock, config, oidcVars>>

\* the event loop runs the continuation of the other call next
SwitchCall ==
    /\ parked # None
    /\ pc \in {"getConfig", "requestToken", "done"}
    /\ parked' = Some([call |-> call, pc |-> pc])
    /\ call' = parked[1].call
    /\ pc' = parked[1].pc
    /\ UNCHANGED <<stores, storeOp, auth, rbaVars, accessTokens, clock, config, oidcVars>>

\* every call made has settled, the caller goes on
OverlapResume ==
    /\ pc = "done"
    /\ parked # None => parked[1].pc = "done"
    /\ pc' = "idle"
    /\ call' = NoCall
    /\ parked' = None
    /\ UNCHANGED <<stores, storeOp, auth, rbaVars, accessTokens, clock, config, oidcVars>>

\* a login that completed at time 0 left one record that holds a refresh token
OverlapInit ==
    /\ \E tokenParams \in TokenParamsSet, tokenResponse \in TokenResponses(1) :
          /\ tokenResponse.refresh_token # 0
          /\ accessTokens = <<LoginAccessToken(tokenResponse, tokenParams, 0)>>
    /\ clock = 0
    /\ config = FALSE
    /\ pc = "idle"
    /\ call = NoCall
    /\ OidcIdle
    /\ RbaIdle
    /\ ExtraIdle
    /\ provider = [response_modes_supported |-> {"query", "web_message"}]

OverlapNext ==
    \/ Tick
    \/ GetAccessToken
    \/ FetchConfigOk
    \/ FetchConfigFail
    \/ RequestTokenOk
    \/ RequestTokenFail
    \/ LoginRedirects
    \/ LoginFails
    \/ SuspendCall
    \/ SwitchCall
    \/ OverlapResume

OverlapSpec == OverlapInit /\ [][OverlapNext]_vars

----------------------------------------------------------------------------
(* An RbaClient operation called while another one is suspended at an await *)

RbaAwaits ==
    {"initConfig", "requestAuthChallenge", "submitAuthChallenge", "pollForAuthCompletion",
     "cancelAuthChallenge"}

\* the caller starts another operation while a submission or a status check
\* awaits its response: the suspended call is set aside with its locals
SuspendRba ==
    /\ parked = None
    /\ rbac \in {"submitAuthChallenge", "pollForAuthCompletion"}
    /\ parked' = Some([rba |-> rba, rbac |-> rbac])
    /\ rba' = NoRba
    /\ rbac' = "idle"
    /\ UNCHANGED <<stores, storeOp, auth, accessTokens, config, ledgerVars, oidcVars,
                   authenticationTransaction, transactions, configVars>>

\* the event loop runs the continuation of the other call next
SwitchRba ==
    /\ parked # None
    /\ rbac \in RbaAwaits \cup {"done"}
    /\ parked' = Some([rba |-> rba, rbac |-> rbac])
    /\ rba' = parked[1].rba
    /\ rbac' = parked[1].rbac
    /\ UNCHANGED <<stores, storeOp, auth, accessTokens, config, ledgerVars, oidcVars,
                   authenticationTransaction, transactions, configVars>>

\* every call made has settled, the caller goes on
RbaOverlapResume ==
    /\ rbac = "done"
    /\ parked # None => parked[1].rbac = "done"
    /\ rbac' = "idle"
    /\ rba' = NoRba
    /\ parked' = None
    /\ UNCHANGED <<stores, storeOp, auth, accessTokens, config, ledgerVars, oidcVars,
                   authenticationTransaction, transactions, configVars>>

RbaOverlapNext ==
    \/ RequestChallenge
    \/ InitConfigOk
    \/ InitConfigFail
    \/ RequestAuthChallengeOk
    \/ RequestAuthChallengeFail
    \/ SubmitChallenge
    \/ SubmitAuthChallengeOk
    \/ SubmitAuthChallengeFail
    \/ Poll
    \/ PollForAuthCompletionOk
    \/ PollForAuthCompletionFail
    \/ Cancel
    \/ CancelAuthChallengeDone
    \/ SuspendRba
    \/ SwitchRba
    \/ RbaOverlapResume

RbaOverlapSpec == Init /\ [][RbaOverlapNext]_vars

----------------------------------------------------------------------------
(* A popup login called while another popup login is suspended at an await *)

\* popup logins that differ in scope, audience and maxAge
PopupLoginOptions ==
    [ scope : {None, Some(ScopeProfileEmail)},
      audience : {None, Some("X")},
      useRefreshToken : {FALSE},
      popup : {TRUE},
      acrValues : {None},
      maxAge : {None, Some(300)} ]

LoginAwaits == {"loginConfig", "popup", "exchange"}

\* the caller starts another login while the login in flight awaits getConfig,
\* the popup or the token endpoint: the suspended call is set aside with its
\* locals
SuspendLogin ==
    /\ parked = None
    /\ op.kind = "login"
    /\ opc \in LoginAwaits
    /\ parked' = Some([op |-> op, opc |-> opc])
    /\ op' = NoOp
    /\ opc' = "idle"
    /\ UNCHANGED <<stores, storeOp, auth, rbaVars, accessTokens, config, ledgerVars, idToken,
                   savedTokenParams, savedClientParams, location, rnd, provider>>

\* the event loop runs the continuation of the other call next
SwitchLogin ==
    /\ parked # None
    /\ opc \in LoginAwaits \cup {"done"}
    /\ parked' = Some([op |-> op, opc |-> opc])
    /\ op' = parked[1].op
    /\ opc' = parked[1].opc
    /\ UNCHANGED <<stores, storeOp, auth, rbaVars, accessTokens, config, ledgerVars, idToken,
                   savedTokenParams, savedClientParams, location, rnd, provider>>

\* every call made has settled, the caller goes on
LoginOverlapResume ==
    /\ opc = "done"
    /\ parked # None => parked[1].opc = "done"
    /\ opc' = "idle"
    /\ op' = NoOp
    /\ parked' = None
    /\ UNCHANGED <<stores, storeOp, auth, rbaVars, accessTokens, config, ledgerVars, idToken,
                   savedTokenParams, savedClientParams, location, rnd, provider>>

LoginOverlapNext ==
    \/ LoginWith(PopupLoginOptions)
    \/ LoginConfigOk
    \/ LoginConfigFail
    \/ PopupResponds
    \/ PopupFails
    \/ ExchangeOk
    \/ ExchangeFail
    \/ SuspendLogin
    \/ SwitchLogin
    \/ LoginOverlapResume

LoginOverlapSpec == Init /\ [][LoginOverlapNext]_vars

----------------------------------------------------------------------------
(* Redirect logins in succession and the callbacks of each of them *)

\* oidc.login with the defaults, as a redirect login
RedirectLoginOptions ==
    [ scope : {None}, audience : {None}, useRefreshToken : {FALSE}, popup : {FALSE},
      acrValues : {None}, maxAge : {None} ]

\* what the k-th call of generateAuthorizationUrl of a behaviour generated
GeneratedByLogin(k) ==
    generateAuthorizationUrl(
        GenerateAuthorizationUrlOptions(CHOOSE options \in RedirectLoginOptions : TRUE, AppUrl),
        RandomStringsPerUrl * (k - 1))

\* the logins that generated an authorization URL so far
LoginsSoFar == 1..(rnd \div RandomStringsPerUrl)

\* the URLs the browser can load the application with: the plain page or a
\* callback of the provider for any login begun so far, or a foreign one
CallbackLocations ==
    {AppUrl}
    \cup { [origin |-> "app", query |-> Some(r)] :
              r \in UNION { AuthorizeResponses(st) :
                              st \in {GeneratedByLogin(k).state : k \in LoginsSoFar}
                                     \cup {ForgedState} } }

\* the browser loads the application anew: the provider of any login redirects
\* back or the user goes back; the page starts without a cached discovery
\* document and without a transaction, the storage persists
ProviderRedirects ==
    /\ opc = "idle" /\ pc = "idle" /\ rbac = "idle"
    /\ \E href \in CallbackLocations : location' = href
    /\ location' # location
    /\ config' = FALSE
    /\ authenticationTransaction' = None
    /\ UNCHANGED <<extraVars, accessTokens, ledgerVars, idToken, savedTokenParams,
                   savedClientParams, rnd, provider, opc, op,
                   transactions, rbac, rba, getConfigCalls, configFetches>>

RedirectNext ==
    \/ LoginWith(RedirectLoginOptions)
    \/ LoginConfigOk
    \/ LoginConfigFail
    \/ HandleRedirect
    \/ ExchangeConfigOk
    \/ ExchangeConfigFail
    \/ ExchangeResponds
    \/ ExchangeFail
    \/ OidcResume
    \/ ProviderRedirects

RedirectSpec == Init /\ [][RedirectNext]_vars

----------------------------------------------------------------------------
(* Claims C31 to C40 *)

\* the store operation op left every key but its own, and the other backend, as
\* they were
OtherKeysKept(o) ==
    \A backend \in Backends, key \in StoreKeys :
        (backend # o.backend \/ key # o.key) =>
            stores[backend][key] = o.before[1][backend][key]

OtherRecords == {i \in 1..Len(storeOp.before[1]) : storeOp.before[1][i] # storeOp.record[1]}

KbaSubmitted ==
    /\ rba.kind = "submitChallenge"
    /\ rba.options # None
    /\ rba.objectBefore # None
    /\ "questions" \in DOMAIN rba.objectBefore[1]

SoftTokenDone == auth.kind = "authenticateSoftToken" /\ auth.pc = "done"

\* the call of requestChallenge with a strict request of the method
RequestedStrictly(method, tokenPushOptions) ==
    [ call |-> "requestChallenge",
      options |-> Some([ userId |-> auth.options[1].userId, strict |-> TRUE,
                         preferredAuthenticationMethod |-> method,
                         tokenPushOptions |-> tokenPushOptions ]) ]

\* C34: authenticateSoftToken with push and without mutualChallenge requests a
\* strict TOKENPUSH challenge, then calls poll once and returns what poll
\* returned (a rejected request is not polled for); with push and
\* mutualChallenge it requests TOKENPUSH with mutualChallengeEnabled and
\* returns the challenge response, no poll; without push it requests a strict
\* TOKEN challenge and returns it, no poll, whatever mutualChallenge is.
C34_SoftToken ==
    /\ Len(SelectSeq(auth.calls, LAMBDA c : c.call = "poll")) <= 1
    /\ SoftTokenDone =>
          LET options == auth.options[1]
          IN /\ auth.result = rba.result
             /\ auth.result.kind \in {"return", "throw"}
             /\ IF options.push /\ ~options.mutualChallenge
                THEN /\ auth.calls[1] = RequestedStrictly("TOKENPUSH", None)
                     /\ IF rba.kind = "poll"
                        THEN auth.calls = <<auth.calls[1], [call |-> "poll", options |-> None]>>
                        ELSE /\ Len(auth.calls) = 1
                             /\ auth.result.kind = "throw"
                ELSE IF options.push
                THEN /\ auth.calls =
                          <<RequestedStrictly("TOKENPUSH",
                                              Some([mutualChallengeEnabled |-> TRUE]))>>
                     /\ rba.kind = "requestChallenge"
                ELSE /\ auth.calls = <<RequestedStrictly("TOKEN", None)>>
                     /\ rba.kind = "requestChallenge"

C34_Witness ==
    /\ SoftTokenDone
    /\ auth.options[1].push
    /\ ~auth.options[1].mutualChallenge
    /\ Len(auth.calls) = 2
    /\ rba.requests = <<RbaRequest("poll", 1)>>
    /\ auth.result.kind = "return"
    /\ auth.result.value.authenticationCompleted
    /\ idToken # 0

\* the token request of the operation in flight was answered with an id token
IdTokenReceived ==
    /\ op.kind \in {"login", "handleRedirect"}
    /\ opc = "done"
    /\ op.id_token # None
    /\ op.tokenRequests # <<>>

\* the claims of the id token received are the ones this flow expects
IdTokenExpected ==
    LET claims == op.id_token[1]
    IN /\ claims.iss = issuerUrl
       /\ claims.aud = clientId
       /\ claims.nonce = FlowNonce(op)
       /\ claims.acr \in {Undefined} \cup acr_values_supported

\* C35: in a popup login and in handleRedirect, a token response whose id token
\* has another issuer, audience, nonce or an unsupported acr makes the
\* operation throw with the stored id token and access tokens untouched, the
\* token params still stored and one token request sent; tokens are saved only
\* from a response whose id token passed.
C35_IdTokenValidated ==
    IdTokenReceived =>
        IF IdTokenExpected
        THEN op.result.kind = "return" =>
                /\ idToken = op.validated[1].access_token
                /\ accessTokens[Len(accessTokens)].accessToken = idToken
        ELSE /\ op.result = Thrown(ErrIdToken)
             /\ idToken = op.before.idToken
             /\ accessTokens = op.before.accessTokens
             /\ op.kind = "handleRedirect" => savedTokenParams = op.before.tokenParams
             /\ op.kind = "login" => savedTokenParams = Some(op.generated[1].tokenParams)
             /\ Len(op.tokenRequests) = 1

C35_Witness ==
    /\ IdTokenReceived
    /\ op.kind = "handleRedirect"
    /\ op.id_token[1].iss = issuerUrl
    /\ op.id_token[1].aud = clientId
    /\ op.id_token[1].acr = Undefined
    /\ op.id_token[1].nonce = ForgedNonce
    /\ op.result.kind = "throw"
    /\ savedTokenParams # None

\* C36 (as stated): no getAccessToken call ends with 'Token that is not valid
\* was not removed': a record without a refresh token that the purge keeps
\* passes the expiry test of the selection.
C36_NeverNotRemoved ==
    /\ call.result # Thrown(ErrNotRemoved)
    /\ InFlight =>
          \A t \in Elems(call.purged) :
              t.refreshToken = 0 => NotExpired(t, call.now)

\* the call sent a refresh_token grant for the record it selected
RedeemedBy(c) == c.refreshRequests > 0 /\ c.requestedToken # <<>>

\* C37 (as stated): of two getAccessToken calls that overlap, at most one
\* redeems the refresh token of a record, and when both have settled the
\* storage holds one record in place of the stale one.
C37_RefreshedOnce ==
    parked # None =>
        LET other == parked[1].call
        IN /\ ~ /\ RedeemedBy(call)
                /\ RedeemedBy(other)
                /\ call.requestedToken[1].refreshToken = other.requestedToken[1].refreshToken
           /\ (/\ pc = "done"
               /\ parked[1].pc = "done"
               /\ call.grant = "ok"
               /\ other.grant = "ok"
               /\ call.requestedToken = other.requestedToken)
                  => Len(accessTokens) = Len(other.purged)

\* C38 (as stated): a submission or status check whose response completes the
\* authentication resolves with that response and has saved the tokens of the
\* transaction it was sent for, also when another transaction became the live
\* one while the response was pending; that other transaction stays live.
C38_CompletedTokensStored ==
    (CompletedNow /\ rba.kind \in {"submitChallenge", "poll"}) =>
        LET details == transactions[rba.tx[1]].details[1]
        IN /\ rba.result = Returned(rba.response[1])
           /\ \E k \in 1..Len(accessTokens) : accessTokens[k].accessToken = details.accessToken
           /\ idToken = details.idToken
           /\ (parked # None /\ parked[1].rba.tx # None /\ parked[1].rba.tx # rba.tx)
                 => authenticationTransaction = parked[1].rba.tx

\* the popup login in flight resolved with the access token it stored
LoginStored ==
    /\ op.kind = "login"
    /\ opc = "done"
    /\ op.result.kind = "return"
    /\ op.validated # None

\* C39 (as stated): the access-token record a popup login stored carries the
\* scope, the audience and the maxAge of the token params that this login
\* generated with its authorization URL, also when another login generated its
\* URL before this one exchanged its code.
C39_RecordOfItsLogin ==
    LoginStored =>
        LET requested == ReadTokenParams(op.generated[1].tokenParams)
            expected == LoginAccessToken(op.validated[1], requested, clock)
        IN \A k \in 1..Len(accessTokens) :
              accessTokens[k].accessToken = op.validated[1].access_token =>
                  /\ accessTokens[k].scope = requested.scope
                  /\ accessTokens[k].audience = requested.audience
                  /\ accessTokens[k].maxAgeExpiry = expected.maxAgeExpiry

\* handleRedirect found an authorization response and stored client params
CallbackHandled ==
    /\ op.kind = "handleRedirect"
    /\ op.authorizeResponse # None
    /\ op.before.clientParams # None

\* the client params are the state, nonce and code verifier of one login
StoredTogether(clientParams) ==
    \E k \in LoginsSoFar :
        /\ clientParams.state = GeneratedByLogin(k).state
        /\ clientParams.nonce = GeneratedByLogin(k).nonce
        /\ clientParams.codeVerifier = GeneratedByLogin(k).codeVerifier
        /\ clientParams.redirectUri = sanitizeUri(AppUrl)

\* C40: the stored client params are those of the most recent redirect login;
\* handleRedirect throws and sends no token request for a callback whose state
\* is not the one of the most recent login, and every token request carries
\* the code of the callback with the code verifier and redirect URI, and
\* every id token accepted the nonce, stored with the state that matched.
C40_LatestStateOnly ==
    /\ savedClientParams # None =>
          /\ LoginsSoFar # {}
          /\ savedClientParams[1].state = GeneratedByLogin(rnd \div RandomStringsPerUrl).state
          /\ StoredTogether(savedClientParams[1])
    /\ CallbackHandled =>
          LET clientParams == op.before.clientParams[1]
              response == op.authorizeResponse[1]
              latest == GeneratedByLogin(rnd \div RandomStringsPerUrl)
          IN /\ response.state # Some(latest.state) =>
                   /\ opc = "done"
                   /\ op.result.kind = "throw"
                   /\ op.tokenRequests = <<>>
             /\ \A i \in 1..Len(op.tokenRequests) :
                   /\ response.state = Some(clientParams.state)
                   /\ op.tokenRequests[i] =
                         AccessTokenRequest(response.code[1], latest.codeVerifier,
                                            sanitizeUri(AppUrl))
                   /\ op.tokenRequests[i].code_verifier = clientParams.codeVerifier
                   /\ op.tokenRequests[i].redirect_uri = clientParams.redirectUri
             /\ (op.id_token # None /\ op.result.kind = "return") =>
                   op.id_token[1].nonce = latest.nonce

C40_Witness ==
    /\ CallbackHandled
    /\ rnd = 2 * RandomStringsPerUrl
    /\ op.authorizeResponse[1].state = Some(GeneratedByLogin(1).state)
    /\ op.authorizeResponse[1].code # None
    /\ op.authorizeResponse[1].error = None
    /\ op.before.clientParams[1].state = GeneratedByLogin(2).state
    /\ op.result = Thrown(ErrStateMismatch)
    /\ op.tokenRequests = <<>>

====
